---- MODULE Spec2Model ----
(***************************************************************************)
(* simple-kanban: the store (boards, lists, cards, comments, labels,       *)
(* card_labels), the HTTP handlers that read and write it, and the         *)
(* connection pool the statements run on.                                   *)
(*                                                                         *)
(* A statement is a function from the store (and the request executing it) *)
(* to the store after it; a handler is the sequence of its statements.     *)
(* SQLite serialises statements, so a statement is one atomic step, and    *)
(* handlers of different requests interleave between statements (Spec).    *)
(* With one request at a time a handler runs from its first statement to   *)
(* its response in one action (ListSpec, CardSpec, LabelSpec).  A request  *)
(* stays in its slot of reqs, with its response, until the handler         *)
(* returns.                                                                *)
(*                                                                         *)
(* Positions are REAL columns / float64 fields.  They are modelled as      *)
(* exact integers: a step whose result would not be an integer of          *)
(* -MaxPos..MaxPos (an odd sum halved, a value past the range) is not      *)
(* taken, so every stored value is the exact value the code computes.      *)
(***************************************************************************)
EXTENDS Integers, FiniteSets, Sequences, TLC

(* ------------------------------ bounds --------------------------------- *)
\* stored and caller-supplied positions range over -MaxPos..MaxPos
MaxPos == 3
\* AUTOINCREMENT stops handing out list ids after MaxLists
MaxLists == 3
\* AUTOINCREMENT stops handing out card ids after MaxCards
MaxCards == 2
\* board ids a request may name; only the seed board (id 1) exists
MaxBoards == 2
\* AUTOINCREMENT stops handing out comment ids after MaxComments
MaxComments == 1
\* connections the pool opens in the model
MaxConns == 2
\* the ids the labels table gives out
MaxLabels == 3
\* the readings of the clock
MaxNow == 2
\* the times the server is started
MaxStartups == 3
\* db.SetMaxOpenConns(25)
MaxOpenConns == 25

VARIABLES
    boards,       \* table boards: the set of ids of its rows
    lists,        \* table lists: id -> [board_id, position]
    cards,        \* table cards: id -> [list_id, position, archived, title]
    comments,     \* table comments: id -> [card_id]
    labels,       \* table labels: id -> [name]
    card_labels,  \* table card_labels: set of <<card_id, label_id>>
    seq,          \* sqlite_sequence: table name -> last AUTOINCREMENT id
    updated_at,   \* column updated_at: table name -> id -> time
    now,          \* the clock: time.Now() and CURRENT_TIMESTAMP
    migrations,   \* table migrations: the set of its filenames
    applied,      \* the migration files whose SQL was committed, in that order
    main,         \* the server process: where it is in main / RunMigrations
    conns,        \* number of open connections of the sql.DB pool
    reqs          \* slot -> the request being handled / its response

vars == <<boards, lists, cards, comments, labels, card_labels, seq, updated_at, now,
          migrations, applied, main, conns, reqs>>

\* the store as one value, and the store becoming d
Store ==
    [boards |-> boards, lists |-> lists, cards |-> cards, comments |-> comments,
     labels |-> labels, card_labels |-> card_labels, seq |-> seq,
     updated_at |-> updated_at, now |-> now]

Commit(d) ==
    /\ boards' = d.boards
    /\ lists' = d.lists
    /\ cards' = d.cards
    /\ comments' = d.comments
    /\ labels' = d.labels
    /\ card_labels' = d.card_labels
    /\ seq' = d.seq
    /\ updated_at' = d.updated_at
    /\ now' = d.now

(* ------------------------------ values --------------------------------- *)
Positions == (0 - MaxPos)..MaxPos
\* a position the caller supplies: a json float64, 0 when omitted
CallerPositions == Positions
BoardIds == 1..MaxBoards
ListIds == 1..MaxLists
CardIds == 1..MaxCards
\* the labels are the seeded ones
LabelIds == {1, 2}
\* a card position the caller supplies; the server does no arithmetic on it
CardPositions == 0..MaxPos
\* the title of a created card, a string as the sequence of its characters
Titles == {<<"T", "a", "s", "k">>}
\* the search terms of a request: none, part of the title, in the other case,
\* SQL's one-character wildcard, and a character the title does not have
Terms == {<< >>, <<"a", "s">>, <<"t">>, <<"_">>, <<"x">>}
\* the name of a label in a request body: two seeded names, a new one, none
LabelNames == {"Bug", "Feature", "Docs", ""}

Max(S) == CHOOSE x \in S : \A y \in S : y <= x
Min(S) == CHOOSE x \in S : \A y \in S : x <= y

Remove(f, S) == [x \in DOMAIN f \ S |-> f[x]]
Insert(f, k, v) == [x \in DOMAIN f \cup {k} |-> IF x = k THEN v ELSE f[x]]

(* ------------------------------ requests ------------------------------- *)
\* a parameter of the URL's query string that holds a number: c.Query gives ""
\* when the URL does not have it
Absent == [given |-> FALSE, value |-> 0]
Param(v) == [given |-> TRUE, value |-> v]

\* the query string of a URL that has none
NoQuery == [query |-> << >>, board_id |-> Absent, list_id |-> Absent,
            archived |-> "", label_id |-> Absent]

\* what c.JSON writes for a slice: null for a nil slice, else the array of its
\* elements (encoding/json); NoArray before the handler has written
NoArray == [null |-> FALSE, array |-> << >>]
JSON(slice) == [null |-> slice.nil, array |-> slice.elems]

\* a request and the locals of its handler; prev, next and their Valid flags
\* are what GetAdjacentPositions read
Idle == [op |-> "idle", pc |-> "idle", id |-> 0, id2 |-> 0, pos |-> 0,
         board |-> 0, prev |-> 0, prevValid |-> FALSE,
         next |-> 0, nextValid |-> FALSE, newPosition |-> 0, title |-> << >>,
         exists |-> FALSE, given |-> FALSE, query |-> NoQuery, json |-> NoArray,
         name |-> "",
         status |-> "none"]

\* a request as its handler starts on it; pos is the Position field of the bound
\* request struct, and given tells whether the body carried a "position"
Request(op, id, id2, pos) ==
    [Idle EXCEPT !.op = op, !.pc = "start", !.id = id, !.id2 = id2, !.pos = pos,
                 !.given = (pos # 0)]

\* ShouldBindJSON into Position float64 `json:"position,omitempty"`: the field
\* takes the body's number, and stays at the zero value when the body has none
BindPosition(given, position) == IF given THEN position ELSE 0

\* what a statement leaves: the store and the request
Out(d, r) == [d |-> d, r |-> r]

\* c.JSON / middleware.HandleError: the handler answers with this status
Reply(r, status) == [r EXCEPT !.pc = "done", !.status = status]

\* the value computed is outside the modelled range: the step is not taken
OutOfRange(r) == [r EXCEPT !.pc = "out"]

(* ------------------------------ the store ------------------------------ *)
\* NewConnection runs "PRAGMA foreign_keys=ON" once, through db.Exec: it reaches
\* the one connection open at that time (connection 1).  A connection the pool
\* opens later starts with SQLite's default, foreign keys off.
ForeignKeys(c) == c = 1

ListsOfBoard(d, boardID) == {l \in DOMAIN d.lists : d.lists[l].board_id = boardID}
CardsOfLists(d, L) == {c \in DOMAIN d.cards : d.cards[c].list_id \in L}
CommentsOfCards(d, C) == {m \in DOMAIN d.comments : d.comments[m].card_id \in C}

\* ON DELETE CASCADE of comments.card_id and card_labels.card_id: the rows that
\* go with the cards C
CascadeCards(d, C) ==
    [d EXCEPT !.cards = Remove(@, C),
              !.comments = Remove(@, CommentsOfCards(d, C)),
              !.card_labels = {p \in @ : p[1] \notin C}]

\* BoardRepository.GetByID / ListRepository.GetByID / CardRepository.GetByID:
\* TRUE when the row is there, FALSE for sql.ErrNoRows ("... not found")
Board_GetByID(d, id) == id \in d.boards
List_GetByID(d, id) == id \in DOMAIN d.lists
Card_GetByID(d, id) == id \in DOMAIN d.cards

\* SELECT MAX(position) FROM lists WHERE board_id = ?   (a sql.NullFloat64)
List_MaxPosition(d, boardID) ==
    LET S == {d.lists[l].position : l \in ListsOfBoard(d, boardID)}
    IN  IF S = {} THEN [Valid |-> FALSE, Float64 |-> 0]
        ELSE [Valid |-> TRUE, Float64 |-> Max(S)]

\* a prev query without its board_id condition
List_PrevPosition_AnyBoard(d, boardID, targetPosition) ==
    LET S == {d.lists[l].position : l \in
                {x \in DOMAIN d.lists : d.lists[x].position < targetPosition}}
    IN  IF S = {} THEN [Valid |-> FALSE, Float64 |-> 0]
        ELSE [Valid |-> TRUE, Float64 |-> Max(S)]

\* SELECT MAX(position) FROM lists WHERE board_id = ? AND position < ?
List_PrevPosition(d, boardID, targetPosition) ==
    LET S == {d.lists[l].position : l \in
                {x \in ListsOfBoard(d, boardID) : d.lists[x].position < targetPosition}}
    IN  IF S = {} THEN [Valid |-> FALSE, Float64 |-> 0]
        ELSE [Valid |-> TRUE, Float64 |-> Max(S)]

\* SELECT MIN(position) FROM lists WHERE board_id = ? AND position > ?
List_NextPosition(d, boardID, targetPosition) ==
    LET S == {d.lists[l].position : l \in
                {x \in ListsOfBoard(d, boardID) : d.lists[x].position > targetPosition}}
    IN  IF S = {} THEN [Valid |-> FALSE, Float64 |-> 0]
        ELSE [Valid |-> TRUE, Float64 |-> Min(S)]

\* a GetAdjacentPositions that takes 1 for a missing prev
AdjacentPrev_One(prev) == IF prev.Valid THEN prev.Float64 ELSE 1

\* GetAdjacentPositions, after its queries: if !prev.Valid { prev.Float64 = 0 },
\* if !next.Valid { next.Float64 = prev.Float64 + 2 }
AdjacentPrev(prev) == IF prev.Valid THEN prev.Float64 ELSE 0
AdjacentNext(prevFloat64, next) == IF next.Valid THEN next.Float64 ELSE prevFloat64 + 2

\* the sum of the neighbours, not halved
Midpoint_NotHalved(prev, next) == prev + next

\* newPosition := (prev + next) / 2
Midpoint(prev, next) == (prev + next) \div 2
\* the quotient is exact and in the modelled range
Representable(sum) == sum % 2 = 0 /\ (sum \div 2) \in Positions

\* a table without its update_*_timestamp trigger, written without updated_at
SetUpdatedAt_Kept(d, table, id) == d

\* "updated_at = ?" with time.Now(), then the table's update_*_timestamp
\* trigger (SET updated_at = CURRENT_TIMESTAMP WHERE id = NEW.id), and the
\* created_at, updated_at of an INSERT: one reading of the clock. The entry of
\* an id that has no row is not read.
SetUpdatedAt(d, table, id) ==
    [d EXCEPT !.updated_at = [@ EXCEPT ![table] = [@ EXCEPT ![id] = d.now]]]

\* an UPDATE that reaches every list of the board of the list
List_UpdatePosition_Board(d, id, position) ==
    [d EXCEPT !.lists = [l \in DOMAIN @ |->
                           IF @[l].board_id = @[id].board_id
                           THEN [@[l] EXCEPT !.position = position] ELSE @[l]]]

\* UPDATE lists SET position = ?, updated_at = ? WHERE id = ?
List_UpdatePosition(d, id, position) ==
    SetUpdatedAt([d EXCEPT !.lists = [@ EXCEPT ![id].position = position]], "lists", id)

\* UPDATE lists SET name = ?, position = ?, color = ?, updated_at = ? WHERE id = ?
List_Update(d, id, position) ==
    SetUpdatedAt([d EXCEPT !.lists = [@ EXCEPT ![id].position = position]], "lists", id)

\* INSERT INTO lists (board_id, name, position, ...) VALUES (...) RETURNING id
List_Insert(d, boardID, position) ==
    SetUpdatedAt([d EXCEPT !.seq = [@ EXCEPT !.lists = @ + 1],
                           !.lists = Insert(@, d.seq.lists + 1,
                                            [board_id |-> boardID, position |-> position])],
                 "lists", d.seq.lists + 1)

\* DELETE FROM lists WHERE id = ?, on connection c: the cards of the list go
\* with it only where the connection enforces foreign keys
List_Delete(d, c, id) ==
    LET gone == [d EXCEPT !.lists = Remove(@, {id})]
    IN  IF ForeignKeys(c) THEN CascadeCards(gone, CardsOfLists(d, {id})) ELSE gone

\* INSERT INTO boards (name, description, ...) VALUES (...) RETURNING id
Board_Insert(d) ==
    SetUpdatedAt([d EXCEPT !.seq = [@ EXCEPT !.boards = @ + 1],
                           !.boards = @ \cup {d.seq.boards + 1}],
                 "boards", d.seq.boards + 1)

\* UPDATE boards SET name = ?, description = ?, updated_at = ? WHERE id = ?
Board_Update(d, id) == SetUpdatedAt(d, "boards", id)

\* DELETE FROM boards WHERE id = ?, on connection c: lists.board_id and
\* cards.list_id are ON DELETE CASCADE where the connection enforces foreign keys
Board_Delete(d, c, id) ==
    LET gone == [d EXCEPT !.boards = @ \ {id}]
        L == ListsOfBoard(d, id)
    IN  IF ForeignKeys(c)
        THEN CascadeCards([gone EXCEPT !.lists = Remove(@, L)], CardsOfLists(d, L))
        ELSE gone

\* the maximum taken over the cards that are not archived
Card_MaxPosition_Unarchived(d, listID) ==
    LET S == {d.cards[x].position : x \in
                {y \in CardsOfLists(d, {listID}) : ~d.cards[y].archived}}
    IN  IF S = {} THEN [Valid |-> FALSE, Float64 |-> 0]
        ELSE [Valid |-> TRUE, Float64 |-> Max(S)]

\* a maximum that is not read from the table
Card_MaxPosition_NotRead(d, listID) == [Valid |-> FALSE, Float64 |-> 0]

\* SELECT MAX(position) FROM cards WHERE list_id = ?   (a sql.NullFloat64)
Card_MaxPosition(d, listID) ==
    LET S == {d.cards[x].position : x \in CardsOfLists(d, {listID})}
    IN  IF S = {} THEN [Valid |-> FALSE, Float64 |-> 0]
        ELSE [Valid |-> TRUE, Float64 |-> Max(S)]

\* INSERT INTO cards (list_id, title, ..., position, ..., archived, ...) RETURNING id
Card_Insert(d, listID, title, position) ==
    SetUpdatedAt([d EXCEPT !.seq = [@ EXCEPT !.cards = @ + 1],
                           !.cards = Insert(@, d.seq.cards + 1,
                                            [list_id |-> listID, position |-> position,
                                             archived |-> FALSE, title |-> title])],
                 "cards", d.seq.cards + 1)

\* UPDATE cards SET title = ?, description = ?, color = ?, due_date = ?,
\* updated_at = ? WHERE id = ?
Card_Update(d, id, title) ==
    SetUpdatedAt([d EXCEPT !.cards = [@ EXCEPT ![id].title = title]], "cards", id)

\* The UPDATE of a Move that writes the list reference and leaves the position
Card_Move_ListOnly(d, cardID, newListID, newPosition) ==
    [d EXCEPT !.cards = [@ EXCEPT ![cardID].list_id = newListID]]

\* UPDATE cards SET list_id = ?, position = ?, updated_at = ? WHERE id = ?
Card_Move(d, cardID, newListID, newPosition) ==
    SetUpdatedAt([d EXCEPT !.cards = [@ EXCEPT ![cardID].list_id = newListID,
                                               ![cardID].position = newPosition]],
                 "cards", cardID)

\* an Archive that also sends the card to the head of its list
Card_Archive_Repositioned(d, id, archive) ==
    [d EXCEPT !.cards = [@ EXCEPT ![id].archived = archive, ![id].position = 0]]

\* an Archive that also sends the card to the end of its list
Card_Archive_Appended(d, id, archive) ==
    [d EXCEPT !.cards = [@ EXCEPT ![id].archived = archive,
                                  ![id].position =
                                    Card_MaxPosition(d, d.cards[id].list_id).Float64 + 1]]

\* UPDATE cards SET archived = ?, updated_at = ? WHERE id = ?
Card_Archive(d, id, archive) ==
    SetUpdatedAt([d EXCEPT !.cards = [@ EXCEPT ![id].archived = archive]], "cards", id)

\* DELETE FROM cards WHERE id = ?, on connection c
Card_Delete(d, c, id) ==
    IF ForeignKeys(c) THEN CascadeCards(d, {id})
    ELSE [d EXCEPT !.cards = Remove(@, {id})]

\* INSERT INTO comments (card_id, content, created_at) ... RETURNING id
Comment_Insert(d, cardID) ==
    [d EXCEPT !.seq = [@ EXCEPT !.comments = @ + 1],
              !.comments = Insert(@, d.seq.comments + 1, [card_id |-> cardID])]

\* the rows of S in ascending (position, rowid) order: an ORDER BY position
\* answered from idx_cards_list_position
RECURSIVE OrderByPosition(_, _)
OrderByPosition(d, S) ==
    IF S = {} THEN << >>
    ELSE LET first == CHOOSE x \in S : \A y \in S :
                        \/ d.cards[x].position < d.cards[y].position
                        \/ d.cards[x].position = d.cards[y].position /\ x <= y
         IN  <<first>> \o OrderByPosition(d, S \ {first})

\* the query without its "AND archived = 0"
Card_GetByListID_Archived(d, listID, includeArchived) ==
    OrderByPosition(d, CardsOfLists(d, {listID}))

\* CardRepository.GetByListID: WHERE list_id = ? [AND archived = 0] ORDER BY position
Card_GetByListID(d, listID, includeArchived) ==
    OrderByPosition(d, {x \in CardsOfLists(d, {listID}) :
                          includeArchived \/ ~d.cards[x].archived})

\* LabelRepository.GetByID
Label_GetByID(d, id) == id \in DOMAIN d.labels

(* ------------------------- queries that list rows ---------------------- *)
\* "var xs []T; for rows.Next() { ...; xs = append(xs, x) }" over the rows of a
\* query: a Go slice, nil as declared and not nil once appended to
Scan(rows) == [nil |-> rows = << >>, elems |-> rows]

\* a repository function that returns the slice as the loop left it
NotNil_Skipped(slice) == slice

\* if xs == nil { xs = []T{} }
NotNil(slice) == IF slice.nil THEN [nil |-> FALSE, elems |-> << >>] ELSE slice

\* the ids S in ascending and in descending order.  created_at is time.Now() at
\* the INSERT and ids are AUTOINCREMENT, so ORDER BY created_at DESC is the
\* descending order of the ids; the seeded label names ascend with their ids
RECURSIVE Ascending(_)
Ascending(S) == IF S = {} THEN << >> ELSE <<Min(S)>> \o Ascending(S \ {Min(S)})
RECURSIVE Descending(_)
Descending(S) == IF S = {} THEN << >> ELSE <<Max(S)>> \o Descending(S \ {Max(S)})

\* the lists S in ascending (position, rowid) order
RECURSIVE OrderListsByPosition(_, _)
OrderListsByPosition(d, S) ==
    IF S = {} THEN << >>
    ELSE LET first == CHOOSE x \in S : \A y \in S :
                        \/ d.lists[x].position < d.lists[y].position
                        \/ d.lists[x].position = d.lists[y].position /\ x <= y
         IN  <<first>> \o OrderListsByPosition(d, S \ {first})

\* BoardRepository.GetAll: SELECT ... FROM boards ORDER BY created_at DESC
BoardRepository_GetAll(d) == Scan(Descending(d.boards))

\* SELECT ... FROM lists WHERE board_id = ? ORDER BY position
List_GetByBoardID(d, boardID) == OrderListsByPosition(d, ListsOfBoard(d, boardID))
\* ListRepository.GetByBoardID
ListRepository_GetByBoardID(d, boardID) == Scan(List_GetByBoardID(d, boardID))

\* CardRepository.GetByListID
CardRepository_GetByListID(d, listID, includeArchived) ==
    NotNil(Scan(Card_GetByListID(d, listID, includeArchived)))

\* CardRepository.GetComments: ... WHERE card_id = ? ORDER BY created_at DESC
CardRepository_GetComments(d, cardID) ==
    Scan(Descending(CommentsOfCards(d, {cardID})))

\* LabelRepository.GetAll: SELECT ... FROM labels ORDER BY name ASC
LabelRepository_GetAll(d) == NotNil(Scan(Ascending(DOMAIN d.labels)))

\* LabelRepository.GetCardLabels: labels INNER JOIN card_labels
\* WHERE cl.card_id = ? ORDER BY l.name ASC
LabelRepository_GetCardLabels(d, cardID) ==
    NotNil(Scan(Ascending({l \in DOMAIN d.labels : <<cardID, l>> \in d.card_labels})))

\* SQLite's LIKE takes the ASCII letters without their case; T is the capital
\* letter of the model
Fold(ch) == IF ch = "T" THEN "t" ELSE ch

\* text LIKE pattern: % stands for any characters, _ for any one character
RECURSIVE Like(_, _)
Like(pattern, text) ==
    IF pattern = << >> THEN text = << >>
    ELSE IF Head(pattern) = "%"
    THEN Like(Tail(pattern), text) \/ (text # << >> /\ Like(pattern, Tail(text)))
    ELSE /\ text # << >>
         /\ Head(pattern) = "_" \/ Fold(Head(pattern)) = Fold(Head(text))
         /\ Like(Tail(pattern), Tail(text))

\* cards c LEFT JOIN lists l LEFT JOIN boards b: b.id of a card, 0 for NULL
Search_BoardOf(d, x) ==
    IF d.cards[x].list_id \in DOMAIN d.lists
       /\ d.lists[d.cards[x].list_id].board_id \in d.boards
    THEN d.lists[d.cards[x].list_id].board_id ELSE 0

\* ... LEFT JOIN card_labels cl ON c.id = cl.card_id: a row <<card, label>>
\* for each label of the card, one row with label 0 (NULL) for a card without
Search_Joined(d) ==
    d.card_labels \cup
      {<<x, 0>> : x \in {y \in DOMAIN d.cards : \A p \in d.card_labels : p[1] # y}}

\* CardRepository.Search: the conditions appended for the fields of params
\* that are not at their zero value, joined by AND
Search_Where(d, params, row) ==
    /\ params.Query # << >> =>
          \/ Like(<<"%">> \o params.Query \o <<"%">>, d.cards[row[1]].title)
          \/ Like(<<"%">> \o params.Query \o <<"%">>, << >>)
    /\ params.BoardID # 0 => Search_BoardOf(d, row[1]) = params.BoardID
    /\ params.ListID # 0 => d.cards[row[1]].list_id = params.ListID
    /\ params.Archived.Valid => d.cards[row[1]].archived = params.Archived.Bool
    /\ params.LabelID # 0 => row[2] = params.LabelID

\* SELECT DISTINCT c.* FROM ... WHERE 1=1 AND ... ORDER BY c.created_at DESC
Card_Search(d, params) ==
    Descending({row[1] : row \in
                  {j \in Search_Joined(d) : j[1] \in DOMAIN d.cards
                                             /\ Search_Where(d, params, j)}})

\* CardRepository.Search
CardRepository_Search(d, params) == NotNil(Scan(Card_Search(d, params)))

\* a labels table without its UNIQUE index
Label_NameTaken_Never(d, id, name) == FALSE

\* name TEXT NOT NULL UNIQUE: a row other than id has the name
Label_NameTaken(d, id, name) ==
    \E l \in DOMAIN d.labels : l # id /\ d.labels[l].name = name

\* INSERT INTO labels (name, color) VALUES (?, ?) RETURNING id, ...
Label_Insert(d, name) ==
    [d EXCEPT !.seq = [@ EXCEPT !.labels = @ + 1],
              !.labels = Insert(@, d.seq.labels + 1, [name |-> name])]

\* UPDATE labels SET name = ?, color = ? WHERE id = ? RETURNING id, ...
Label_Update(d, id, name) ==
    [d EXCEPT !.labels = [@ EXCEPT ![id].name = name]]

\* a DELETE FROM card_labels without its WHERE
CardLabel_DeleteByLabel_All(d, id) ==
    [d EXCEPT !.card_labels = {}]

\* DELETE FROM card_labels WHERE label_id = ?
CardLabel_DeleteByLabel(d, id) ==
    [d EXCEPT !.card_labels = {p \in @ : p[2] # id}]

\* DELETE FROM labels WHERE id = ?, on connection c: card_labels.label_id is
\* ON DELETE CASCADE where the connection enforces foreign keys
Label_Delete(d, c, id) ==
    [d EXCEPT !.labels = Remove(@, {id}),
              !.card_labels = IF ForeignKeys(c) THEN {p \in @ : p[2] # id} ELSE @]

\* SELECT EXISTS(SELECT 1 FROM card_labels WHERE card_id = ? AND label_id = ?)
CardLabel_Exists(d, cardID, labelID) == <<cardID, labelID>> \in d.card_labels

\* INSERT INTO card_labels (card_id, label_id) VALUES (?, ?)
CardLabel_Insert(d, cardID, labelID) ==
    [d EXCEPT !.card_labels = @ \cup {<<cardID, labelID>>}]

(* --------------------------- ListHandler.Move -------------------------- *)
\* the handler going on to GetAdjacentPositions without looking at GetByID's error
MoveList_GetByID_Unchecked(d, r) ==
    IF r.pos = 0 THEN Out(d, Reply(r, "BadRequest"))
    ELSE Out(d, [r EXCEPT !.pc = "Prev",
                          !.board = IF List_GetByID(d, r.id)
                                    THEN d.lists[r.id].board_id ELSE 0])

\* ShouldBindJSON(MoveListRequest): position is binding:"required", so the
\* zero value is refused before the store is read; then listRepo.GetByID
MoveList_GetByID(d, r) ==
    IF r.pos = 0 THEN Out(d, Reply(r, "BadRequest"))
    ELSE IF List_GetByID(d, r.id)
    THEN Out(d, [r EXCEPT !.pc = "Prev", !.board = d.lists[r.id].board_id])
    ELSE Out(d, Reply(r, "NotFound"))

\* GetAdjacentPositions(list.BoardID, req.Position), first query
MoveList_Prev(d, r) ==
    LET prev == List_PrevPosition(d, r.board, r.pos)
    IN  Out(d, [r EXCEPT !.pc = "Next", !.prevValid = prev.Valid,
                         !.prev = AdjacentPrev(prev)])

\* GetAdjacentPositions, second query; newPosition := (prev + next) / 2
MoveList_Next(d, r) ==
    LET next == List_NextPosition(d, r.board, r.pos)
        n == AdjacentNext(r.prev, next)
    IN  IF Representable(r.prev + n)
        THEN Out(d, [r EXCEPT !.pc = "UpdatePosition", !.nextValid = next.Valid,
                              !.next = n, !.newPosition = Midpoint(r.prev, n)])
        ELSE Out(d, OutOfRange(r))

\* listRepo.UpdatePosition: RowsAffected() == 0 is "list not found", and any
\* error is answered 500 "Failed to move list"
MoveList_UpdatePosition(d, r) ==
    IF List_GetByID(d, r.id)
    THEN Out(List_UpdatePosition(d, r.id, r.newPosition), Reply(r, "OK"))
    ELSE Out(d, Reply(r, "InternalServerError"))

MoveListStep(d, r) ==
    CASE r.pc = "start" -> MoveList_GetByID(d, r)
      [] r.pc = "Prev" -> MoveList_Prev(d, r)
      [] r.pc = "Next" -> MoveList_Next(d, r)
      [] r.pc = "UpdatePosition" -> MoveList_UpdatePosition(d, r)

(* -------------------------- ListHandler.Create ------------------------- *)
\* boardRepo.GetByID, then the bind; Position 0 is "not provided"
CreateList_BoardGetByID(d, r) ==
    IF Board_GetByID(d, r.id)
    THEN Out(d, [r EXCEPT !.pc = IF r.pos = 0 THEN "MaxPosition" ELSE "Insert",
                          !.newPosition = r.pos])
    ELSE Out(d, Reply(r, "NotFound"))

\* ListRepository.Create: if list.Position == 0 { ... maxPosition.Float64 + 1.0 }
CreateList_MaxPosition(d, r) ==
    LET p == List_MaxPosition(d, r.id).Float64 + 1
    IN  IF p \in Positions
        THEN Out(d, [r EXCEPT !.pc = "Insert", !.newPosition = p])
        ELSE Out(d, OutOfRange(r))

\* the INSERT fails where the connection enforces foreign keys and the board is
\* gone; any error is answered 500 "Failed to create list"
CreateList_Insert(d, r, c) ==
    IF ForeignKeys(c) /\ ~Board_GetByID(d, r.id)
    THEN Out(d, Reply(r, "InternalServerError"))
    ELSE IF d.seq.lists < MaxLists
    THEN Out(List_Insert(d, r.id, r.newPosition),
             Reply([r EXCEPT !.id2 = d.seq.lists + 1], "Created"))
    ELSE Out(d, OutOfRange(r))

CreateListStep(d, r, c) ==
    CASE r.pc = "start" -> CreateList_BoardGetByID(d, r)
      [] r.pc = "MaxPosition" -> CreateList_MaxPosition(d, r)
      [] r.pc = "Insert" -> CreateList_Insert(d, r, c)

(* -------------------------- ListHandler.Update ------------------------- *)
\* the handler reads the row, overwrites the fields the request carries
\* (req.Position != 0) and writes name, position and color back
UpdateList_GetByID(d, r) ==
    IF List_GetByID(d, r.id)
    THEN Out(d, [r EXCEPT !.pc = "Update",
                          !.newPosition = IF r.pos # 0 THEN r.pos
                                          ELSE d.lists[r.id].position])
    ELSE Out(d, Reply(r, "NotFound"))

\* listRepo.Update: "list not found" is answered 500 "Failed to update list"
UpdateList_Update(d, r) ==
    IF List_GetByID(d, r.id)
    THEN Out(List_Update(d, r.id, r.newPosition), Reply(r, "OK"))
    ELSE Out(d, Reply(r, "InternalServerError"))

UpdateListStep(d, r) ==
    CASE r.pc = "start" -> UpdateList_GetByID(d, r)
      [] r.pc = "Update" -> UpdateList_Update(d, r)

(* -------------------------- ListHandler.Delete ------------------------- *)
\* listRepo.Delete: RowsAffected() == 0 is "list not found", answered 404
DeleteListStep(d, r, c) ==
    IF List_GetByID(d, r.id)
    THEN Out(List_Delete(d, c, r.id), Reply(r, "OK"))
    ELSE Out(d, Reply(r, "NotFound"))

(* -------------------------- BoardHandler.Delete ------------------------ *)
\* boardRepo.Delete: RowsAffected() == 0 is "board not found", answered 404
DeleteBoardStep(d, r, c) ==
    IF Board_GetByID(d, r.id)
    THEN Out(Board_Delete(d, c, r.id), Reply(r, "OK"))
    ELSE Out(d, Reply(r, "NotFound"))

(* -------------------------- CardHandler.Create ------------------------- *)
\* listRepo.GetByID, then the bind; Position 0 is "not provided"
CreateCard_ListGetByID(d, r) ==
    IF List_GetByID(d, r.id)
    THEN Out(d, [r EXCEPT !.pc = IF r.pos = 0 THEN "MaxPosition" ELSE "Insert",
                          !.newPosition = r.pos])
    ELSE Out(d, Reply(r, "NotFound"))

\* CardRepository.Create: if card.Position == 0 { ... maxPosition.Float64 + 1.0 }
CreateCard_MaxPosition(d, r) ==
    LET p == Card_MaxPosition(d, r.id).Float64 + 1
    IN  IF p \in Positions
        THEN Out(d, [r EXCEPT !.pc = "Insert", !.newPosition = p])
        ELSE Out(d, OutOfRange(r))

\* the INSERT fails where the connection enforces foreign keys and the list is
\* gone; any error is answered 500 "Failed to create card"
CreateCard_Insert(d, r, c) ==
    IF ForeignKeys(c) /\ ~List_GetByID(d, r.id)
    THEN Out(d, Reply(r, "InternalServerError"))
    ELSE IF d.seq.cards < MaxCards
    THEN Out(Card_Insert(d, r.id, r.title, r.newPosition),
             Reply([r EXCEPT !.id2 = d.seq.cards + 1], "Created"))
    ELSE Out(d, OutOfRange(r))

CreateCardStep(d, r, c) ==
    CASE r.pc = "start" -> CreateCard_ListGetByID(d, r)
      [] r.pc = "MaxPosition" -> CreateCard_MaxPosition(d, r)
      [] r.pc = "Insert" -> CreateCard_Insert(d, r, c)

(* --------------------------- CardHandler.Move -------------------------- *)
\* ShouldBindJSON(MoveCardRequest): list_id and position are
\* binding:"required", the zero value is refused; then cardRepo.GetByID
MoveCard_GetByID(d, r) ==
    IF r.id2 = 0 \/ r.pos = 0 THEN Out(d, Reply(r, "BadRequest"))
    ELSE IF Card_GetByID(d, r.id) THEN Out(d, [r EXCEPT !.pc = "ListGetByID"])
    ELSE Out(d, Reply(r, "NotFound"))

\* the handler going on to cardRepo.Move without verifying the target list
MoveCard_ListGetByID_Unchecked(d, r) ==
    Out(d, [r EXCEPT !.pc = "Move"])

\* listRepo.GetByID(req.ListID)
MoveCard_ListGetByID(d, r) ==
    IF List_GetByID(d, r.id2) THEN Out(d, [r EXCEPT !.pc = "Move"])
    ELSE Out(d, Reply(r, "NotFound"))

\* cardRepo.Move(id, req.ListID, req.Position): "card not found" and a foreign
\* key failure are both answered 500 "Failed to move card"
MoveCard_Move(d, r, c) ==
    IF ~Card_GetByID(d, r.id) THEN Out(d, Reply(r, "InternalServerError"))
    ELSE IF ForeignKeys(c) /\ ~List_GetByID(d, r.id2)
    THEN Out(d, Reply(r, "InternalServerError"))
    ELSE Out(Card_Move(d, r.id, r.id2, r.pos), Reply(r, "OK"))

MoveCardStep(d, r, c) ==
    CASE r.pc = "start" -> MoveCard_GetByID(d, r)
      [] r.pc = "ListGetByID" -> MoveCard_ListGetByID(d, r)
      [] r.pc = "Move" -> MoveCard_Move(d, r, c)

(* -------------------- CardHandler.Archive / Unarchive ------------------ *)
\* cardRepo.Archive(id, archive): RowsAffected() == 0 is "card not found", 404
ArchiveCardStep(d, r, archive) ==
    IF Card_GetByID(d, r.id)
    THEN Out(Card_Archive(d, r.id, archive), Reply(r, "OK"))
    ELSE Out(d, Reply(r, "NotFound"))

(* -------------------------- CardHandler.Delete ------------------------- *)
DeleteCardStep(d, r, c) ==
    IF Card_GetByID(d, r.id)
    THEN Out(Card_Delete(d, c, r.id), Reply(r, "OK"))
    ELSE Out(d, Reply(r, "NotFound"))

(* ------------------------ CardHandler.AddComment ----------------------- *)
AddComment_GetByID(d, r) ==
    IF Card_GetByID(d, r.id) THEN Out(d, [r EXCEPT !.pc = "Insert"])
    ELSE Out(d, Reply(r, "NotFound"))

\* the INSERT fails where the connection enforces foreign keys and the card is
\* gone; any error is answered 500 "Failed to add comment"
AddComment_Insert(d, r, c) ==
    IF ForeignKeys(c) /\ ~Card_GetByID(d, r.id)
    THEN Out(d, Reply(r, "InternalServerError"))
    ELSE IF d.seq.comments < MaxComments
    THEN Out(Comment_Insert(d, r.id),
             Reply([r EXCEPT !.id2 = d.seq.comments + 1], "Created"))
    ELSE Out(d, OutOfRange(r))

AddCommentStep(d, r, c) ==
    CASE r.pc = "start" -> AddComment_GetByID(d, r)
      [] r.pc = "Insert" -> AddComment_Insert(d, r, c)

(* ------------------------- LabelHandler.Delete ------------------------- *)
\* LabelRepository.Delete, first statement
DeleteLabel_Associations(d, r) ==
    Out(CardLabel_DeleteByLabel(d, r.id), [r EXCEPT !.pc = "Delete"])

\* LabelRepository.Delete, second statement: RowsAffected() == 0 is
\* "label not found", answered 404
DeleteLabel_Delete(d, r, c) ==
    IF Label_GetByID(d, r.id)
    THEN Out(Label_Delete(d, c, r.id), Reply(r, "NoContent"))
    ELSE Out(d, Reply(r, "NotFound"))

DeleteLabelStep(d, r, c) ==
    CASE r.pc = "start" -> DeleteLabel_Associations(d, r)
      [] r.pc = "Delete" -> DeleteLabel_Delete(d, r, c)

(* ----------------------- LabelHandler.AssignToCard --------------------- *)
AssignLabel_CardGetByID(d, r) ==
    IF Card_GetByID(d, r.id) THEN Out(d, [r EXCEPT !.pc = "LabelGetByID"])
    ELSE Out(d, Reply(r, "NotFound"))

AssignLabel_LabelGetByID(d, r) ==
    IF Label_GetByID(d, r.id2) THEN Out(d, [r EXCEPT !.pc = "Exists"])
    ELSE Out(d, Reply(r, "NotFound"))

\* an AssignToCard that goes to its INSERT whatever the check found
AssignLabel_Exists_Ignored(d, r) ==
    Out(d, [r EXCEPT !.pc = "Insert", !.exists = CardLabel_Exists(d, r.id, r.id2)])

\* LabelRepository.AssignToCard: if exists { return nil }
AssignLabel_Exists(d, r) ==
    IF CardLabel_Exists(d, r.id, r.id2)
    THEN Out(d, Reply([r EXCEPT !.exists = TRUE], "OK"))
    ELSE Out(d, [r EXCEPT !.pc = "Insert"])

\* the INSERT fails on the primary key (card_id, label_id), and on the foreign
\* keys where the connection enforces them; any error is answered 500
AssignLabel_Insert(d, r, c) ==
    IF CardLabel_Exists(d, r.id, r.id2) THEN Out(d, Reply(r, "InternalServerError"))
    ELSE IF ForeignKeys(c) /\ ~(Card_GetByID(d, r.id) /\ Label_GetByID(d, r.id2))
    THEN Out(d, Reply(r, "InternalServerError"))
    ELSE Out(CardLabel_Insert(d, r.id, r.id2), Reply(r, "OK"))

AssignLabelStep(d, r, c) ==
    CASE r.pc = "start" -> AssignLabel_CardGetByID(d, r)
      [] r.pc = "LabelGetByID" -> AssignLabel_LabelGetByID(d, r)
      [] r.pc = "Exists" -> AssignLabel_Exists(d, r)
      [] r.pc = "Insert" -> AssignLabel_Insert(d, r, c)

(* ---------------------- the handlers that list rows -------------------- *)
\* the response 200 with the slice as its body
ReplyJSON(r, slice) == [Reply(r, "OK") EXCEPT !.json = JSON(slice)]

\* ListHandler.GetByBoardID: boardRepo.GetByID, then listRepo.GetByBoardID
ListListsStep(d, r) ==
    CASE r.pc = "start" ->
           IF Board_GetByID(d, r.id) THEN Out(d, [r EXCEPT !.pc = "GetByBoardID"])
           ELSE Out(d, Reply(r, "NotFound"))
      [] r.pc = "GetByBoardID" ->
           Out(d, ReplyJSON(r, ListRepository_GetByBoardID(d, r.id)))

\* CardHandler.GetByListID: includeArchived := c.Query("archived") == "true",
\* listRepo.GetByID, then cardRepo.GetByListID
ListCardsStep(d, r) ==
    CASE r.pc = "start" ->
           IF List_GetByID(d, r.id) THEN Out(d, [r EXCEPT !.pc = "GetByListID"])
           ELSE Out(d, Reply(r, "NotFound"))
      [] r.pc = "GetByListID" ->
           Out(d, ReplyJSON(r, CardRepository_GetByListID(d, r.id,
                                                         r.query.archived = "true")))

\* CardHandler.Search: the SearchCardsRequest parsed from the query string; a
\* number field takes strconv.Atoi of its parameter when the URL has it, and
\* keeps 0 otherwise
Search_Params(q) ==
    [Query |-> q.query,
     BoardID |-> IF q.board_id.given THEN q.board_id.value ELSE 0,
     ListID |-> IF q.list_id.given THEN q.list_id.value ELSE 0,
     Archived |-> [Valid |-> q.archived # "", Bool |-> q.archived = "true"],
     LabelID |-> IF q.label_id.given THEN q.label_id.value ELSE 0]

\* CardHandler.GetComments: cardRepo.GetByID, then cardRepo.GetComments
ListCommentsStep(d, r) ==
    CASE r.pc = "start" ->
           IF Card_GetByID(d, r.id) THEN Out(d, [r EXCEPT !.pc = "GetComments"])
           ELSE Out(d, Reply(r, "NotFound"))
      [] r.pc = "GetComments" ->
           Out(d, ReplyJSON(r, CardRepository_GetComments(d, r.id)))

\* LabelHandler.GetCardLabels: cardRepo.GetByID, then labelRepo.GetCardLabels
ListLabelsForCardStep(d, r) ==
    CASE r.pc = "start" ->
           IF Card_GetByID(d, r.id) THEN Out(d, [r EXCEPT !.pc = "GetCardLabels"])
           ELSE Out(d, Reply(r, "NotFound"))
      [] r.pc = "GetCardLabels" ->
           Out(d, ReplyJSON(r, LabelRepository_GetCardLabels(d, r.id)))

(* ----------------- LabelHandler.Create, LabelHandler.Update ------------ *)
\* ShouldBindJSON(CreateLabelRequest): name is binding:"required,min=1,max=50";
\* then the INSERT, whose every error is answered 500
CreateLabelStep(d, r) ==
    IF r.name = "" THEN Out(d, Reply(r, "BadRequest"))
    ELSE IF Label_NameTaken(d, 0, r.name)
    THEN Out(d, Reply(r, "InternalServerError"))
    ELSE IF d.seq.labels < MaxLabels
    THEN Out(Label_Insert(d, r.name), Reply([r EXCEPT !.id2 = d.seq.labels + 1], "Created"))
    ELSE Out(d, OutOfRange(r))

\* the same bind; the UPDATE ... RETURNING of a missing id has no row
\* (sql.ErrNoRows, "label not found", 404), any other error is answered 500
UpdateLabelStep(d, r) ==
    IF r.name = "" THEN Out(d, Reply(r, "BadRequest"))
    ELSE IF ~Label_GetByID(d, r.id) THEN Out(d, Reply(r, "NotFound"))
    ELSE IF Label_NameTaken(d, r.id, r.name)
    THEN Out(d, Reply(r, "InternalServerError"))
    ELSE Out(Label_Update(d, r.id, r.name), Reply(r, "OK"))

(* ----------------- BoardHandler.Update, CardHandler.Update ------------- *)
\* repo.GetByID (404), the bind, then repo.Update: "board not found" there is
\* answered 500
UpdateBoardStep(d, r) ==
    CASE r.pc = "start" ->
           IF Board_GetByID(d, r.id) THEN Out(d, [r EXCEPT !.pc = "Update"])
           ELSE Out(d, Reply(r, "NotFound"))
      [] r.pc = "Update" ->
           IF Board_GetByID(d, r.id) THEN Out(Board_Update(d, r.id), Reply(r, "OK"))
           ELSE Out(d, Reply(r, "InternalServerError"))

\* cardRepo.GetByID (404), the bind (if req.Title != "" { card.Title = req.Title }),
\* then cardRepo.Update, which writes the title the handler holds
UpdateCardStep(d, r) ==
    CASE r.pc = "start" ->
           IF Card_GetByID(d, r.id)
           THEN Out(d, [r EXCEPT !.pc = "Update",
                                 !.title = IF @ # << >> THEN @ ELSE d.cards[r.id].title])
           ELSE Out(d, Reply(r, "NotFound"))
      [] r.pc = "Update" ->
           IF Card_GetByID(d, r.id)
           THEN Out(Card_Update(d, r.id, r.title), Reply(r, "OK"))
           ELSE Out(d, Reply(r, "InternalServerError"))

(* ------------------------------ the server ----------------------------- *)
\* the next statement of request r, executed on connection c
Step(d, r, c) ==
    CASE r.op = "MoveList" -> MoveListStep(d, r)
      [] r.op = "CreateList" -> CreateListStep(d, r, c)
      [] r.op = "UpdateList" -> UpdateListStep(d, r)
      [] r.op = "DeleteList" -> DeleteListStep(d, r, c)
      [] r.op = "DeleteBoard" -> DeleteBoardStep(d, r, c)
      [] r.op = "CreateBoard" ->
           IF d.seq.boards < MaxBoards
           THEN Out(Board_Insert(d), Reply([r EXCEPT !.id2 = d.seq.boards + 1], "Created"))
           ELSE Out(d, OutOfRange(r))
      [] r.op = "CreateCard" -> CreateCardStep(d, r, c)
      [] r.op = "MoveCard" -> MoveCardStep(d, r, c)
      [] r.op = "ArchiveCard" -> ArchiveCardStep(d, r, TRUE)
      [] r.op = "UnarchiveCard" -> ArchiveCardStep(d, r, FALSE)
      [] r.op = "DeleteCard" -> DeleteCardStep(d, r, c)
      [] r.op = "AddComment" -> AddCommentStep(d, r, c)
      [] r.op = "DeleteLabel" -> DeleteLabelStep(d, r, c)
      [] r.op = "AssignLabel" -> AssignLabelStep(d, r, c)
      [] r.op = "CreateLabel" -> CreateLabelStep(d, r)
      [] r.op = "UpdateBoard" -> UpdateBoardStep(d, r)
      [] r.op = "UpdateCard" -> UpdateCardStep(d, r)
      [] r.op = "UpdateLabel" -> UpdateLabelStep(d, r)
      [] r.op = "ListBoards" -> Out(d, ReplyJSON(r, BoardRepository_GetAll(d)))
      [] r.op = "ListLists" -> ListListsStep(d, r)
      [] r.op = "ListCards" -> ListCardsStep(d, r)
      [] r.op = "SearchCards" ->
           Out(d, ReplyJSON(r, CardRepository_Search(d, Search_Params(r.query))))
      [] r.op = "ListComments" -> ListCommentsStep(d, r)
      [] r.op = "ListLabels" -> Out(d, ReplyJSON(r, LabelRepository_GetAll(d)))
      [] r.op = "ListLabelsForCard" -> ListLabelsForCardStep(d, r)

\* the handler of r from its next statement to its response
RECURSIVE Run(_, _, _)
Run(d, r, c) ==
    IF r.pc \in {"done", "out"} THEN Out(d, r)
    ELSE LET o == Step(d, r, c) IN Run(o.d, o.r, c)

\* one request at a time: the whole handler of request r
Serve(s, r) ==
    /\ reqs[s] = Idle
    /\ \E c \in 1..conns :
         LET o == Run(Store, r, c) IN
         /\ o.r.pc = "done"
         /\ Commit(o.d)
         /\ reqs' = [reqs EXCEPT ![s] = o.r]
    /\ UNCHANGED <<migrations, applied, main, conns>>

\* the handler returns; its slot takes the next request
Return(s) ==
    /\ reqs[s].pc = "done"
    /\ reqs' = [reqs EXCEPT ![s] = Idle]
    /\ UNCHANGED <<boards, lists, cards, comments, labels, card_labels, seq, updated_at,
                   now, migrations, applied, main, conns>>

\* POST /boards
CreateBoard(s) == Serve(s, Request("CreateBoard", 0, 0, 0))
MoveList(s) ==
    \E id \in ListIds, t \in CallerPositions : Serve(s, Request("MoveList", id, 0, t))
CreateList(s) ==
    \E b \in BoardIds, p \in CallerPositions : Serve(s, Request("CreateList", b, 0, p))
UpdateList(s) ==
    \E id \in ListIds, p \in CallerPositions : Serve(s, Request("UpdateList", id, 0, p))
DeleteList(s) ==
    \E id \in ListIds : Serve(s, Request("DeleteList", id, 0, 0))
\* a CreateCard on a list of L, with a position of P
CreateCard(s, L, P) ==
    \E l \in L, p \in P, t \in Titles :
      Serve(s, [Request("CreateCard", l, 0, p) EXCEPT !.title = t])
MoveCard(s) ==
    \E id \in CardIds, l \in ListIds, p \in CardPositions :
      Serve(s, Request("MoveCard", id, l, p))
\* PATCH /lists/:id/move for a list of I, towards a position of P
MoveListRequest(s, I, P) ==
    \E id \in I, t \in P : Serve(s, Request("MoveList", id, 0, t))
\* PUT /lists/:id for a list of I, with a position of P (0: none)
UpdateListRequest(s, I, P) ==
    \E id \in I, p \in P : Serve(s, Request("UpdateList", id, 0, p))
\* PATCH /cards/:id/move for a card of I, to a list of L at a position of P
MoveCardRequest(s, I, L, P) ==
    \E id \in I, l \in L, p \in P : Serve(s, Request("MoveCard", id, l, p))
\* POST /boards/:id/lists with a body that carries a position of P, or none
CreateListRequest(s, B, P) ==
    \E b \in B, given \in BOOLEAN, p \in P :
      Serve(s, [Request("CreateList", b, 0, BindPosition(given, p))
                  EXCEPT !.given = given])
\* POST /lists/:id/cards with a body that carries a position of P, or none
CreateCardRequest(s, L, P) ==
    \E l \in L, given \in BOOLEAN, p \in P, t \in Titles :
      Serve(s, [Request("CreateCard", l, 0, BindPosition(given, p))
                  EXCEPT !.given = given, !.title = t])
ArchiveCard(s) ==
    \E id \in CardIds : Serve(s, Request("ArchiveCard", id, 0, 0))
UnarchiveCard(s) ==
    \E id \in CardIds : Serve(s, Request("UnarchiveCard", id, 0, 0))
DeleteCard(s) ==
    \E id \in CardIds : Serve(s, Request("DeleteCard", id, 0, 0))
AddComment(s) ==
    \E id \in CardIds : Serve(s, Request("AddComment", id, 0, 0))
AssignLabel(s) ==
    \E id \in CardIds, l \in LabelIds : Serve(s, Request("AssignLabel", id, l, 0))
DeleteLabel(s) ==
    \E id \in LabelIds : Serve(s, Request("DeleteLabel", id, 0, 0))
UpdateBoard(s) ==
    \E id \in BoardIds : Serve(s, Request("UpdateBoard", id, 0, 0))
\* a request of operation op on a card of I (and a label of K), with a title
\* where the operation takes one
CardRequest(s, op, I, K) ==
    \E id \in I, l \in K, t \in Titles :
      Serve(s, [Request(op, id, l, 0) EXCEPT !.title = IF op = "UpdateCard" THEN t ELSE << >>])
\* time passes between two requests
Tick ==
    /\ now < MaxNow
    /\ now' = now + 1
    /\ UNCHANGED <<boards, lists, cards, comments, labels, card_labels, seq, updated_at,
                   migrations, applied, main, conns, reqs>>
CreateLabel(s) ==
    \E n \in LabelNames : Serve(s, [Request("CreateLabel", 0, 0, 0) EXCEPT !.name = n])
UpdateLabel(s) ==
    \E id \in 1..MaxLabels, n \in LabelNames :
      Serve(s, [Request("UpdateLabel", id, 0, 0) EXCEPT !.name = n])
DeleteBoard(s) ==
    \E id \in BoardIds : Serve(s, Request("DeleteBoard", id, 0, 0))

\* the values of the archived parameter of a URL: absent, "true", "false"
ArchivedParams == {"", "true", "false"}

ListBoards(s) == Serve(s, Request("ListBoards", 0, 0, 0))
ListLists(s) ==
    \E id \in BoardIds : Serve(s, Request("ListLists", id, 0, 0))
ListCards(s) ==
    \E id \in ListIds, a \in ArchivedParams :
      Serve(s, [Request("ListCards", id, 0, 0)
                  EXCEPT !.query = [NoQuery EXCEPT !.archived = a]])
\* GET /cards with a query string that has a term of Q, a board of B, a list of
\* L, an archived flag of A and a label of K
SearchCards(s, Q, B, L, A, K) ==
    \E q \in Q, b \in B, l \in L, a \in A, k \in K :
      Serve(s, [Request("SearchCards", 0, 0, 0)
                  EXCEPT !.query = [query |-> q, board_id |-> b, list_id |-> l,
                                    archived |-> a, label_id |-> k]])
ListComments(s) ==
    \E id \in CardIds : Serve(s, Request("ListComments", id, 0, 0))
ListLabels(s) == Serve(s, Request("ListLabels", 0, 0, 0))
ListLabelsForCard(s) ==
    \E id \in CardIds : Serve(s, Request("ListLabelsForCard", id, 0, 0))

(* ----------------------------- initial store --------------------------- *)
\* migrations/002_seed_data.sql, cut to its first rows: the 'Main Board' (id 1)
\* with 'Backlog' at 1.0 and 'To Do' at 2.0; it seeds no cards
SeedLists ==
    <<[board_id |-> 1, position |-> 1], [board_id |-> 1, position |-> 2]>>

\* its first labels
SeedLabels == <<[name |-> "Bug"], [name |-> "Feature"]>>

\* ioutil.ReadDir(migrationsPath): the entries of the directory, sorted by
\* filename
Files == <<"001_initial_schema.sql", "002_seed_data.sql", "README.md">>

\* strings.HasSuffix(file.Name(), ".sql")
HasSuffix_sql(name) == name \in {"001_initial_schema.sql", "002_seed_data.sql"}

SeedStore ==
    /\ boards = {1}
    /\ lists = SeedLists
    /\ cards = << >>
    /\ comments = << >>
    /\ labels = SeedLabels
    /\ card_labels = {}
    /\ seq = [lists |-> Len(SeedLists), cards |-> 0, comments |-> 0,
              boards |-> 1,
              labels |-> Len(SeedLabels)]
    /\ updated_at = [boards |-> [b \in BoardIds |-> 0], lists |-> [l \in ListIds |-> 0],
                     cards |-> [x \in CardIds |-> 0]]
    /\ now = 0
    /\ migrations = {Files[1], Files[2]}
    /\ applied = <<Files[1], Files[2]>>
    /\ main = [pc |-> "serving", i |-> Len(Files) + 1, starts |-> 1]
    /\ conns = 1

(* ------------------------- main and RunMigrations ---------------------- *)
\* a RunMigrations that does not look into the migrations table
Migration_Exists_Never(filename) == FALSE

\* SELECT EXISTS(SELECT 1 FROM migrations WHERE filename = ?)
Migration_Exists(filename) == filename \in migrations

\* INSERT INTO lists ... SELECT id, ..., position, ... FROM boards WHERE
\* name = 'Main Board': a list for every board B of that name
RECURSIVE Seed_Lists(_, _, _)
Seed_Lists(d, B, position) ==
    IF B = {} THEN d
    ELSE Seed_Lists(List_Insert(d, Min(B), position), B \ {Min(B)}, position)

\* INSERT INTO labels (name, color) VALUES ... ON CONFLICT DO NOTHING
Seed_Label(d, name) == IF Label_NameTaken(d, 0, name) THEN d ELSE Label_Insert(d, name)

\* the SQL of 002_seed_data.sql: boards.name is not unique, so ON CONFLICT
\* DO NOTHING never skips the board, and every board of a store that only
\* migrations have written is a 'Main Board'
SeedData(d) ==
    LET board == Board_Insert(d)
        backlog == Seed_Lists(board, board.boards, SeedLists[1].position)
        todo == Seed_Lists(backlog, board.boards, SeedLists[2].position)
    IN  Seed_Label(Seed_Label(todo, SeedLabels[1].name), SeedLabels[2].name)

\* tx.Exec(string(content)): the schema file creates tables, indexes and
\* triggers IF NOT EXISTS and no row
Migrate(d, filename) == IF filename = "002_seed_data.sql" THEN SeedData(d) ELSE d

\* main: NewConnection, then RunMigrations up to its loop (ReadDir,
\* CREATE TABLE IF NOT EXISTS migrations)
Startup ==
    /\ main.pc = "down" /\ main.starts < MaxStartups
    /\ main' = [main EXCEPT !.pc = "file", !.i = 1, !.starts = @ + 1]
    /\ UNCHANGED <<boards, lists, cards, comments, labels, card_labels, seq, updated_at,
                   now, migrations, applied, conns, reqs>>

\* for _, file := range files: the suffix test and the EXISTS query, then
\* ReadFile and db.Begin(); an error ends the process (log.Fatalf)
NextFile ==
    /\ main.pc = "file"
    /\ \E ok \in BOOLEAN :
         main' = IF main.i > Len(Files) THEN [main EXCEPT !.pc = "serving"]
                 ELSE IF ~HasSuffix_sql(Files[main.i]) THEN [main EXCEPT !.i = @ + 1]
                 ELSE IF ~ok THEN [main EXCEPT !.pc = "down"]
                 ELSE IF Migration_Exists(Files[main.i]) THEN [main EXCEPT !.i = @ + 1]
                 ELSE [main EXCEPT !.pc = "Exec"]
    /\ UNCHANGED <<boards, lists, cards, comments, labels, card_labels, seq, updated_at,
                   now, migrations, applied, conns, reqs>>

\* tx.Exec(string(content)), then tx.Exec("INSERT INTO migrations ..."): on
\* an error tx.Rollback() and the process ends
TxExec ==
    /\ main.pc \in {"Exec", "Record"}
    /\ \E ok \in BOOLEAN :
         main' = IF ~ok THEN [main EXCEPT !.pc = "down"]
                 ELSE [main EXCEPT !.pc = IF @ = "Exec" THEN "Record" ELSE "Commit"]
    /\ UNCHANGED <<boards, lists, cards, comments, labels, card_labels, seq, updated_at,
                   now, migrations, applied, conns, reqs>>

\* tx.Commit(): what the two statements wrote becomes the store (nothing else
\* writes while the server starts); on an error nothing does
TxCommit ==
    /\ main.pc = "Commit"
    /\ \E ok \in BOOLEAN :
         IF ok
         THEN /\ Commit(Migrate(Store, Files[main.i]))
              /\ migrations' = migrations \cup {Files[main.i]}
              /\ applied' = Append(applied, Files[main.i])
              /\ main' = [main EXCEPT !.pc = "file", !.i = @ + 1]
         ELSE /\ main' = [main EXCEPT !.pc = "down"]
              /\ UNCHANGED <<boards, lists, cards, comments, labels, card_labels, seq,
                             updated_at, now, migrations, applied>>
    /\ UNCHANGED <<conns, reqs>>

\* the process ends, at any statement: an open transaction is rolled back
Shutdown ==
    /\ main.pc # "down"
    /\ main' = [main EXCEPT !.pc = "down"]
    /\ UNCHANGED <<boards, lists, cards, comments, labels, card_labels, seq, updated_at,
                   now, migrations, applied, conns, reqs>>

\* a new database file
MigrateInit ==
    /\ boards = {} /\ lists = << >> /\ cards = << >> /\ comments = << >>
    /\ labels = << >> /\ card_labels = {}
    /\ seq = [lists |-> 0, cards |-> 0, comments |-> 0, boards |-> 0, labels |-> 0]
    /\ updated_at = [boards |-> [b \in BoardIds |-> 0], lists |-> [l \in ListIds |-> 0],
                     cards |-> [x \in CardIds |-> 0]]
    /\ now = 0
    /\ migrations = {} /\ applied = << >>
    /\ main = [pc |-> "down", i |-> 0, starts |-> 0]
    /\ conns = 1
    /\ reqs = [s \in {"client"} |-> Idle]

MigrateNext == Startup \/ NextFile \/ TxExec \/ TxCommit \/ Shutdown \/ Tick

MigrateSpec == MigrateInit /\ [][MigrateNext]_vars

(* ------------- the list handlers, one request at a time ---------------- *)
ListInit == SeedStore /\ reqs = [s \in {"client"} |-> Idle]

ListNext ==
    \/ \E s \in DOMAIN reqs : MoveList(s)
    \/ \E s \in DOMAIN reqs : CreateList(s)
    \/ \E s \in DOMAIN reqs : UpdateList(s)
    \/ \E s \in DOMAIN reqs : DeleteList(s)
    \/ \E s \in DOMAIN reqs : Return(s)

ListSpec == ListInit /\ [][ListNext]_vars

(* ------------- the labels and their names, one request at a time ------ *)
NameNext ==
    \/ \E s \in DOMAIN reqs : CreateLabel(s)
    \/ \E s \in DOMAIN reqs : UpdateLabel(s)
    \/ \E s \in DOMAIN reqs : DeleteLabel(s)
    \/ \E s \in DOMAIN reqs : CreateCard(s, {1}, {0})
    \/ \E s \in DOMAIN reqs : AssignLabel(s)
    \/ \E s \in DOMAIN reqs : Return(s)

NameSpec == ListInit /\ [][NameNext]_vars

(* ------------- the handlers and the clock, one request at a time ------- *)
ClockNext ==
    \/ Tick
    \/ \E s \in DOMAIN reqs : UpdateBoard(s)
    \/ \E s \in DOMAIN reqs : MoveListRequest(s, {1}, {3})
    \/ \E s \in DOMAIN reqs : UpdateListRequest(s, {1}, {0})
    \/ \E s \in DOMAIN reqs : CreateCard(s, {1}, {0})
    \/ \E s \in DOMAIN reqs : CardRequest(s, "UpdateCard", {1}, {0})
    \/ \E s \in DOMAIN reqs : MoveCardRequest(s, {1}, {2}, {1})
    \/ \E s \in DOMAIN reqs : CardRequest(s, "ArchiveCard", {1}, {0})
    \/ \E s \in DOMAIN reqs : CardRequest(s, "UnarchiveCard", {1}, {0})
    \/ \E s \in DOMAIN reqs : CardRequest(s, "DeleteCard", {1}, {0})
    \/ \E s \in DOMAIN reqs : CardRequest(s, "AddComment", {1}, {0})
    \/ \E s \in DOMAIN reqs : CardRequest(s, "AssignLabel", {1}, {1})
    \/ \E s \in DOMAIN reqs : Return(s)

ClockSpec == ListInit /\ [][ClockNext]_vars

(* ------------- lists on several boards, one request at a time ---------- *)
BoardNext ==
    \/ \E s \in DOMAIN reqs : CreateBoard(s)
    \/ \E s \in DOMAIN reqs : CreateListRequest(s, BoardIds, {1, 3})
    \/ \E s \in DOMAIN reqs : MoveListRequest(s, ListIds, {1, 2, 3})
    \/ \E s \in DOMAIN reqs : DeleteList(s)
    \/ \E s \in DOMAIN reqs : Return(s)

BoardSpec == ListInit /\ [][BoardNext]_vars

(* ------------- the card handlers, one request at a time ---------------- *)
CardInit == SeedStore /\ reqs = [s \in {"client"} |-> Idle]

CardNext ==
    \/ \E s \in DOMAIN reqs : CreateCard(s, ListIds, CardPositions)
    \/ \E s \in DOMAIN reqs : MoveCard(s)
    \/ \E s \in DOMAIN reqs : ArchiveCard(s)
    \/ \E s \in DOMAIN reqs : UnarchiveCard(s)
    \/ \E s \in DOMAIN reqs : DeleteCard(s)
    \/ \E s \in DOMAIN reqs : Return(s)

CardSpec == CardInit /\ [][CardNext]_vars

(* --- cards with their comments and labels, one request at a time ------- *)
LabelInit == SeedStore /\ reqs = [s \in {"client"} |-> Idle]

LabelNext ==
    \/ \E s \in DOMAIN reqs : CreateCard(s, {1}, {0})
    \/ \E s \in DOMAIN reqs : AddComment(s)
    \/ \E s \in DOMAIN reqs : AssignLabel(s)
    \/ \E s \in DOMAIN reqs : ArchiveCard(s)
    \/ \E s \in DOMAIN reqs : UnarchiveCard(s)
    \/ \E s \in DOMAIN reqs : DeleteLabel(s)
    \/ \E s \in DOMAIN reqs : Return(s)

LabelSpec == LabelInit /\ [][LabelNext]_vars

(* ------ creating lists and cards, with and without a position --------- *)
\* the positions the bodies of the create requests carry
BodyPositions == {0 - 1, 0, 2}

CreateNext ==
    \/ \E s \in DOMAIN reqs : CreateListRequest(s, {1}, BodyPositions)
    \/ \E s \in DOMAIN reqs : CreateCardRequest(s, {1, 2}, BodyPositions)
    \/ \E s \in DOMAIN reqs : ArchiveCard(s)
    \/ \E s \in DOMAIN reqs : DeleteCard(s)
    \/ \E s \in DOMAIN reqs : DeleteList(s)
    \/ \E s \in DOMAIN reqs : Return(s)

\* from the seed store, as the list handlers
CreateSpec == ListInit /\ [][CreateNext]_vars

(* ------- lists and cards created, moved, archived, deleted, listed ----- *)
\* the lists are the seeded ones
OrderNext ==
    \/ \E s \in DOMAIN reqs : MoveListRequest(s, {1, 2}, {3})
    \/ \E s \in DOMAIN reqs : DeleteList(s)
    \/ \E s \in DOMAIN reqs : CreateCardRequest(s, {1}, {0 - 1})
    \/ \E s \in DOMAIN reqs : MoveCardRequest(s, {1}, {1, 2}, {1})
    \/ \E s \in DOMAIN reqs : ArchiveCard(s)
    \/ \E s \in DOMAIN reqs : DeleteCard(s)
    \/ \E s \in DOMAIN reqs : ListLists(s)
    \/ \E s \in DOMAIN reqs : ListCards(s)
    \/ \E s \in DOMAIN reqs : Return(s)

\* from the seed store, as the list handlers
OrderSpec == ListInit /\ [][OrderNext]_vars

(* ----------- the handlers that list rows, one request at a time -------- *)
ReadNext ==
    \/ \E s \in DOMAIN reqs : CreateCard(s, {1}, {0})
    \/ \E s \in DOMAIN reqs : ArchiveCard(s)
    \/ \E s \in DOMAIN reqs : AddComment(s)
    \/ \E s \in DOMAIN reqs : AssignLabel(s)
    \/ \E s \in DOMAIN reqs : DeleteLabel(s)
    \/ \E s \in DOMAIN reqs : DeleteList(s)
    \/ \E s \in DOMAIN reqs : DeleteBoard(s)
    \/ \E s \in DOMAIN reqs : ListBoards(s)
    \/ \E s \in DOMAIN reqs : ListLists(s)
    \/ \E s \in DOMAIN reqs : ListCards(s)
    \/ \E s \in DOMAIN reqs :
         SearchCards(s, Terms, {Absent}, {Absent}, ArchivedParams, {Absent})
    \/ \E s \in DOMAIN reqs : ListComments(s)
    \/ \E s \in DOMAIN reqs : ListLabels(s)
    \/ \E s \in DOMAIN reqs : ListLabelsForCard(s)
    \/ \E s \in DOMAIN reqs : Return(s)

\* from the seed store, as the list handlers
ReadSpec == ListInit /\ [][ReadNext]_vars

(* ------------------ the search, one request at a time ------------------ *)
SearchNext ==
    \/ \E s \in DOMAIN reqs : CreateCard(s, {1, 2}, {0})
    \/ \E s \in DOMAIN reqs : ArchiveCard(s)
    \/ \E s \in DOMAIN reqs : AssignLabel(s)
    \/ \E s \in DOMAIN reqs : DeleteCard(s)
    \/ \E s \in DOMAIN reqs :
         SearchCards(s, Terms, {Absent, Param(0), Param(1)},
                     {Absent, Param(0), Param(1)}, ArchivedParams,
                     {Absent, Param(0), Param(1)})
    \/ \E s \in DOMAIN reqs : Return(s)

\* from the seed store, as the list handlers
SearchSpec == ListInit /\ [][SearchNext]_vars

(* ------------------- requests handled concurrently --------------------- *)
\* the handler of request r starts: its first statement
Begin(s, r) ==
    /\ reqs[s] = Idle
    /\ \E c \in 1..conns :
         LET o == Step(Store, r, c) IN
         /\ o.r.pc # "out"
         /\ Commit(o.d)
         /\ reqs' = [reqs EXCEPT ![s] = o.r]
    /\ UNCHANGED <<migrations, applied, main, conns>>

\* the handler of an op request goes on: its next statement
Continue(s, op) ==
    /\ reqs[s].op = op
    /\ reqs[s].pc \notin {"idle", "done"}
    /\ \E c \in 1..conns :
         LET o == Step(Store, reqs[s], c) IN
         /\ o.r.pc # "out"
         /\ Commit(o.d)
         /\ reqs' = [reqs EXCEPT ![s] = o.r]
    /\ UNCHANGED <<migrations, applied, main, conns>>

\* database/sql opens another connection when a statement finds every open one
\* in use, up to SetMaxOpenConns(25); it takes two requests at once
OpenConn ==
    /\ conns < MaxConns /\ conns < MaxOpenConns
    /\ \E s, t \in DOMAIN reqs : s # t /\ reqs[s] # Idle /\ reqs[t] # Idle
    /\ conns' = conns + 1
    /\ UNCHANGED <<boards, lists, cards, comments, labels, card_labels, seq, updated_at,
                   now, migrations, applied, main, reqs>>

(* ------------- an editing client racing a deleting client ------------- *)
\* what the two clients name in their requests
RaceLists == {1, 2}
RaceCards == {1}
RaceLabels == {1}
RacePositions == {2}

CreateCard_Begin(s) ==
    \E t \in Titles : Begin(s, [Request("CreateCard", 1, 0, 0) EXCEPT !.title = t])
MoveCard_Begin(s) ==
    \E id \in RaceCards, l \in RaceLists, p \in RacePositions :
      Begin(s, Request("MoveCard", id, l, p))
AddComment_Begin(s) ==
    \E id \in RaceCards : Begin(s, Request("AddComment", id, 0, 0))
AssignLabel_Begin(s) ==
    \E id \in RaceCards, l \in RaceLabels : Begin(s, Request("AssignLabel", id, l, 0))
DeleteLabel_Begin(s) ==
    \E id \in RaceLabels : Begin(s, Request("DeleteLabel", id, 0, 0))
DeleteBoard_Whole(s) == Begin(s, Request("DeleteBoard", 1, 0, 0))
DeleteList_Whole(s) ==
    \E id \in RaceLists : Begin(s, Request("DeleteList", id, 0, 0))
DeleteCard_Whole(s) ==
    \E id \in RaceCards : Begin(s, Request("DeleteCard", id, 0, 0))

Init == SeedStore /\ reqs = [s \in {"editor", "deleter"} |-> Idle]

Next ==
    \/ \E s \in DOMAIN reqs : s = "editor" /\ CreateCard_Begin(s)
    \/ \E s \in DOMAIN reqs : s = "editor" /\ Continue(s, "CreateCard")
    \/ \E s \in DOMAIN reqs : s = "editor" /\ MoveCard_Begin(s)
    \/ \E s \in DOMAIN reqs : s = "editor" /\ Continue(s, "MoveCard")
    \/ \E s \in DOMAIN reqs : s = "editor" /\ AddComment_Begin(s)
    \/ \E s \in DOMAIN reqs : s = "editor" /\ Continue(s, "AddComment")
    \/ \E s \in DOMAIN reqs : s = "editor" /\ AssignLabel_Begin(s)
    \/ \E s \in DOMAIN reqs : s = "editor" /\ Continue(s, "AssignLabel")
    \/ \E s \in DOMAIN reqs : s = "deleter" /\ DeleteLabel_Begin(s)
    \/ \E s \in DOMAIN reqs : s = "deleter" /\ Continue(s, "DeleteLabel")
    \/ \E s \in DOMAIN reqs : s = "deleter" /\ DeleteBoard_Whole(s)
    \/ \E s \in DOMAIN reqs : s = "deleter" /\ DeleteList_Whole(s)
    \/ \E s \in DOMAIN reqs : s = "deleter" /\ DeleteCard_Whole(s)
    \/ \E s \in DOMAIN reqs : Return(s)
    \/ OpenConn

Spec == Init /\ [][Next]_vars

(* ------------- two clients writing to the same container --------------- *)
\* POST /boards/1/lists, without a position or at the low end of the board
CreateList_Begin(s) ==
    \E p \in {0, 0 - MaxPos} : Begin(s, Request("CreateList", 1, 0, p))
\* PATCH /lists/:id/move towards the slot above the lowest list
MoveList_Begin(s) ==
    \E id \in RaceLists : Begin(s, Request("MoveList", id, 0, 1 - MaxPos))
\* PUT /lists/:id with a name and no position
UpdateList_Begin(s) ==
    \E id \in RaceLists : Begin(s, Request("UpdateList", id, 0, 0))

RaceNext ==
    \/ \E s \in DOMAIN reqs : CreateCard_Begin(s)
    \/ \E s \in DOMAIN reqs : Continue(s, "CreateCard")
    \/ \E s \in DOMAIN reqs : CreateList_Begin(s)
    \/ \E s \in DOMAIN reqs : Continue(s, "CreateList")
    \/ \E s \in DOMAIN reqs : MoveList_Begin(s)
    \/ \E s \in DOMAIN reqs : Continue(s, "MoveList")
    \/ \E s \in DOMAIN reqs : UpdateList_Begin(s)
    \/ \E s \in DOMAIN reqs : Continue(s, "UpdateList")
    \/ \E s \in DOMAIN reqs : AssignLabel_Begin(s)
    \/ \E s \in DOMAIN reqs : Continue(s, "AssignLabel")
    \/ \E s \in DOMAIN reqs : Return(s)
    \/ OpenConn

\* the two clients of Init
RaceSpec == Init /\ [][RaceNext]_vars

(* ======================= properties of MoveList ======================== *)
\* slot s has just been served a request of operation op
Served(s, op) == reqs[s] = Idle /\ reqs'[s].op = op /\ reqs'[s].pc = "done"

\* the positions of the lists of board b below / above t
Below(b, t) == {lists[l].position : l \in {x \in DOMAIN lists :
                    lists[x].board_id = b /\ lists[x].position < t}}
Above(b, t) == {lists[l].position : l \in {x \in DOMAIN lists :
                    lists[x].board_id = b /\ lists[x].position > t}}

\* C1: a MoveList(id, t) on a board that has a list strictly below t (prev the
\* greatest such position) and a list strictly above t (next the smallest)
\* stores p with p = (prev + next) / 2 exactly, and prev < p < next.
C1_MoveListMidpoint ==
    [][\A s \in DOMAIN reqs :
         Served(s, "MoveList") /\ reqs'[s].status = "OK" =>
           LET id == reqs'[s].id
               t == reqs'[s].pos
               b == lists[id].board_id
               p == lists'[id].position
           IN  Below(b, t) # {} /\ Above(b, t) # {} =>
                 /\ 2 * p = Max(Below(b, t)) + Min(Above(b, t))
                 /\ Max(Below(b, t)) < p
                 /\ p < Min(Above(b, t))]_vars

\* a MoveList that found a neighbour on each side has answered
C1_Witness ==
    \E s \in DOMAIN reqs :
      /\ reqs[s].op = "MoveList" /\ reqs[s].status = "OK"
      /\ reqs[s].prevValid /\ reqs[s].nextValid
      /\ lists[reqs[s].id].position = reqs[s].newPosition

\* C2: after a successful MoveList(id, t) every other list of the board whose
\* position is below t is strictly below the moved list, and every other list
\* whose position is above t is strictly above it.
C2_MoveListSlot ==
    [][\A s \in DOMAIN reqs :
         Served(s, "MoveList") /\ reqs'[s].status = "OK" =>
           LET id == reqs'[s].id
               t == reqs'[s].pos
               p == lists'[id].position
           IN  \A l \in DOMAIN lists \ {id} :
                 lists[l].board_id = lists[id].board_id =>
                   /\ lists[l].position < t => lists'[l].position < p
                   /\ lists[l].position > t => lists'[l].position > p]_vars

\* C3: MoveList(id, t) on an id that resolves to no list answers NotFound and
\* changes no stored row.
C3_MoveListNotFound ==
    [][\A s \in DOMAIN reqs :
         Served(s, "MoveList") /\ reqs'[s].pos # 0 /\ reqs'[s].id \notin DOMAIN lists =>
           /\ reqs'[s].status = "NotFound"
           /\ UNCHANGED <<boards, lists, cards, comments, labels, card_labels>>]_vars

\* a MoveList on a missing list has answered NotFound
C3_Witness ==
    \E s \in DOMAIN reqs :
      /\ reqs[s].op = "MoveList" /\ reqs[s].status = "NotFound"
      /\ reqs[s].pos # 0 /\ reqs[s].id \notin DOMAIN lists

(* ================= properties of the card handlers ===================== *)
\* C4: MoveCard(cardID, targetListID, pos) answers NotFound when cardID resolves
\* to no card or targetListID to no list, and then every stored row, the card's
\* list reference and position among them, is as before the call.
C4_MoveCardNotFound ==
    [][\A s \in DOMAIN reqs :
         /\ Served(s, "MoveCard") /\ reqs'[s].pos # 0
         /\ reqs'[s].id \notin DOMAIN cards \/ reqs'[s].id2 \notin DOMAIN lists
         => /\ reqs'[s].status = "NotFound"
            /\ UNCHANGED <<boards, lists, cards, comments, labels, card_labels>>]_vars

\* a MoveCard of an existing card to a missing list has answered NotFound
C4_Witness ==
    \E s \in DOMAIN reqs :
      /\ reqs[s].op = "MoveCard" /\ reqs[s].status = "NotFound"
      /\ reqs[s].id \in DOMAIN cards /\ reqs[s].id2 \notin DOMAIN lists
      /\ reqs[s].pos # cards[reqs[s].id].position

\* C6: Archive(cardID) and Unarchive(cardID) set / clear the card's archived
\* flag and nothing else: its position, list reference and title, its comments
\* and label rows and every other row are unchanged; on an id that does not
\* exist they answer NotFound and change nothing.
C6_ArchiveFrame ==
    [][\A s \in DOMAIN reqs :
         Served(s, "ArchiveCard") \/ Served(s, "UnarchiveCard") =>
           LET id == reqs'[s].id IN
           /\ UNCHANGED <<boards, lists, comments, labels, card_labels>>
           /\ IF id \in DOMAIN cards
              THEN /\ reqs'[s].status = "OK"
                   /\ cards' = [cards EXCEPT ![id].archived = (reqs'[s].op = "ArchiveCard")]
              ELSE /\ reqs'[s].status = "NotFound"
                   /\ UNCHANGED cards]_vars

\* a card with a comment and a label has been archived, next to another card
C6_Witness ==
    \E s \in DOMAIN reqs :
      /\ reqs[s].op = "ArchiveCard" /\ reqs[s].status = "OK"
      /\ cards[reqs[s].id].archived
      /\ \E m \in DOMAIN comments : comments[m].card_id = reqs[s].id
      /\ \E p \in card_labels : p[1] = reqs[s].id
      /\ DOMAIN cards # {reqs[s].id}

\* the sequence q without x
Without(q, x) == SelectSeq(q, LAMBDA y : y # x)

\* C7: for a non-archived card c of list L, after Archive(c) the listing
\* ListCardsForList(L, includeArchived = false) is the previous sequence with c
\* removed, and after a following Unarchive(c) it is the sequence before the
\* Archive again.
C7_ArchiveRoundTrip ==
    \A c \in DOMAIN cards :
      ~cards[c].archived =>
        LET L == cards[c].list_id
            before == Card_GetByListID(Store, L, FALSE)
            archived == Run(Store, Request("ArchiveCard", c, 0, 0), 1)
            restored == Run(archived.d, Request("UnarchiveCard", c, 0, 0), 1)
        IN  /\ archived.r.status = "OK"
            /\ Card_GetByListID(archived.d, L, FALSE) = Without(before, c)
            /\ restored.r.status = "OK"
            /\ Card_GetByListID(restored.d, L, FALSE) = before

\* a card has been unarchived into a list that shows it with other cards
C7_Witness ==
    \E s \in DOMAIN reqs :
      /\ reqs[s].op = "UnarchiveCard" /\ reqs[s].status = "OK"
      /\ Len(Card_GetByListID(Store, cards[reqs[s].id].list_id, FALSE)) >= 2
      /\ Card_GetByListID(Store, cards[reqs[s].id].list_id, FALSE)[1] # reqs[s].id

\* C10: DeleteLabel(id) removes the label and exactly the card-label rows that
\* reference it; no board, list, card, comment, other label or row of another
\* label is deleted or modified.
C10_DeleteLabelFrame ==
    [][\A s \in DOMAIN reqs :
         Served(s, "DeleteLabel") =>
           LET id == reqs'[s].id IN
           /\ reqs'[s].status = IF id \in DOMAIN labels THEN "NoContent" ELSE "NotFound"
           /\ labels' = Remove(labels, {id})
           /\ card_labels' = {p \in card_labels : p[2] # id}
           /\ UNCHANGED <<boards, lists, cards, comments>>]_vars

\* a label has been deleted while rows of the other label, cards and a comment
\* are stored
C10_Witness ==
    \E s \in DOMAIN reqs :
      /\ reqs[s].op = "DeleteLabel" /\ reqs[s].status = "NoContent"
      /\ card_labels # {} /\ comments # << >>
      /\ labels # << >>

(* ================= properties under concurrent requests ================ *)
\* C5: a successful MoveCard(cardID, targetListID, pos) stores the caller's pos
\* and targetListID in one step; a card's list reference or position never
\* changes otherwise, so no state shows the one new and the other old.
C5_MoveCardAtomic ==
    [][/\ \A s \in DOMAIN reqs :
            reqs[s].op = "MoveCard" /\ reqs[s].pc # "done"
              /\ reqs'[s].pc = "done" /\ reqs'[s].status = "OK" =>
                cards' = [cards EXCEPT ![reqs'[s].id].list_id = reqs'[s].id2,
                                       ![reqs'[s].id].position = reqs'[s].pos]
       /\ \A c \in DOMAIN cards \cap DOMAIN cards' :
            cards'[c].list_id # cards[c].list_id \/ cards'[c].position # cards[c].position =>
              \E s \in DOMAIN reqs :
                /\ reqs[s].op = "MoveCard" /\ reqs[s].pc = "Move" /\ reqs[s].id = c
                /\ reqs'[s].status = "OK"
                /\ cards'[c].list_id = reqs[s].id2
                /\ cards'[c].position = reqs[s].pos]_vars

\* a MoveCard has put a card on another list at another position while the
\* other client's request was being handled
C5_Witness ==
    \E s, t \in DOMAIN reqs :
      /\ s # t /\ reqs[t].pc \notin {"idle", "done"}
      /\ reqs[s].op = "MoveCard" /\ reqs[s].status = "OK"
      /\ reqs[s].id \in DOMAIN cards
      /\ cards[reqs[s].id].list_id = reqs[s].id2
      /\ cards[reqs[s].id].position = reqs[s].pos
      /\ reqs[s].id2 # 1 /\ reqs[s].pos # 1

\* C8: after DeleteList(l) succeeds no card of l, no comment on such a card and
\* no card-label row of such a card is stored, whichever connection of the pool
\* executed the delete.
C8_DeleteListCascade ==
    [][\A s \in DOMAIN reqs :
         Served(s, "DeleteList") /\ reqs'[s].status = "OK" =>
           LET C == {c \in DOMAIN cards : cards[c].list_id = reqs'[s].id} IN
           /\ \A c \in DOMAIN cards' : cards'[c].list_id # reqs'[s].id
           /\ \A m \in DOMAIN comments' : comments'[m].card_id \notin C
           /\ \A p \in card_labels' : p[1] \notin C]_vars

\* C9: in every reachable state every list references a stored board, every
\* card a stored list, every comment a stored card, and every card-label row a
\* stored card and a stored label.
C9_ReferentialIntegrity ==
    /\ \A l \in DOMAIN lists : lists[l].board_id \in boards
    /\ \A c \in DOMAIN cards : cards[c].list_id \in DOMAIN lists
    /\ \A m \in DOMAIN comments : comments[m].card_id \in DOMAIN cards
    /\ \A p \in card_labels : p[1] \in DOMAIN cards /\ p[2] \in DOMAIN labels

(* ===================== properties of the label handlers ================ *)
\* C11: for a stored card and a stored label, a second AssignLabelToCard of the
\* pair, after the first, succeeds and changes nothing: the store after two
\* calls is the store after one, and it holds the pair's row.
C11_AssignIdempotent ==
    \A c \in DOMAIN cards, l \in DOMAIN labels :
      LET one == Run(Store, Request("AssignLabel", c, l, 0), 1)
          two == Run(one.d, Request("AssignLabel", c, l, 0), 1)
      IN  /\ one.r.status = "OK"
          /\ two.r.status = "OK"
          /\ two.d = one.d
          /\ <<c, l>> \in two.d.card_labels

\* an AssignLabelToCard has found the pair's row in place and answered OK
C11_Witness ==
    \E s \in DOMAIN reqs :
      /\ reqs[s].op = "AssignLabel" /\ reqs[s].status = "OK" /\ reqs[s].exists
      /\ <<reqs[s].id, reqs[s].id2>> \in card_labels

(* ================= properties of CreateList / CreateCard =============== *)
\* the position after the greatest of the positions S: 1 in an empty container
AfterMax(S) == IF S = {} THEN 1 ELSE Max(S) + 1

\* C12: a CreateList whose body has no position stores the list at the
\* greatest position of the lists of its board plus 1, and a CreateCard whose
\* body has no position stores the card at the greatest position of the cards
\* of its list, archived ones included, plus 1; 1 when the container is empty.
C12_CreateDefaultPosition ==
    [][\A s \in DOMAIN reqs :
         /\ Served(s, "CreateList") /\ reqs'[s].status = "Created" /\ ~reqs'[s].given
            => LET new == reqs'[s].id2 IN
               /\ new \in DOMAIN lists' \ DOMAIN lists
               /\ lists'[new].position =
                    AfterMax({lists[l].position : l \in
                                {x \in DOMAIN lists : lists[x].board_id = reqs'[s].id}})
         /\ Served(s, "CreateCard") /\ reqs'[s].status = "Created" /\ ~reqs'[s].given
            => LET new == reqs'[s].id2 IN
               /\ new \in DOMAIN cards' \ DOMAIN cards
               /\ cards'[new].position =
                    AfterMax({cards[c].position : c \in
                                {x \in DOMAIN cards : cards[x].list_id = reqs'[s].id}})
      ]_vars

\* a card created without a position stands after an archived card that has
\* the greatest position of its list; and list 3, created without a position
\* (no body carries a 3), stands at 3 after list 2 although 1 is free again
C12_Witness ==
    /\ DOMAIN lists = {2, 3}
    /\ lists[2].position = 2 /\ lists[3].position = 3
    /\ \E s \in DOMAIN reqs :
         /\ reqs[s].op = "CreateCard" /\ reqs[s].status = "Created" /\ ~reqs[s].given
         /\ reqs[s].id2 \in DOMAIN cards
         /\ \E a \in DOMAIN cards :
              /\ cards[a].archived /\ cards[a].list_id = reqs[s].id
              /\ cards[reqs[s].id2].position = cards[a].position + 1
              /\ \A c \in DOMAIN cards \ {reqs[s].id2} :
                   cards[c].list_id = reqs[s].id => cards[c].position <= cards[a].position

\* C13: a CreateList or CreateCard whose body carries a position stores the
\* entity at exactly that position, whatever the value.
C13_CreateSuppliedPosition ==
    [][\A s \in DOMAIN reqs :
         /\ Served(s, "CreateList") /\ reqs'[s].status = "Created" /\ reqs'[s].given
            => lists'[reqs'[s].id2].position = reqs'[s].pos
         /\ Served(s, "CreateCard") /\ reqs'[s].status = "Created" /\ reqs'[s].given
            => cards'[reqs'[s].id2].position = reqs'[s].pos
      ]_vars

(* ================== properties of the listing handlers ================= *)
\* C14: ListCardsForList and SearchCards answer with an array, never null:
\* the empty array when no card matches.
C14_CardListingsNotNull ==
    \A s \in DOMAIN reqs :
      reqs[s].op \in {"ListCards", "SearchCards"} /\ reqs[s].status = "OK"
      => ~reqs[s].json.null

\* a listing without the archived cards of a list whose cards are all archived
\* has answered with the empty array
C14_Witness ==
    \E s \in DOMAIN reqs :
      /\ reqs[s].op = "ListCards" /\ reqs[s].status = "OK"
      /\ reqs[s].query.archived # "true"
      /\ reqs[s].json = [null |-> FALSE, array |-> << >>]
      /\ \E x \in DOMAIN cards : cards[x].list_id = reqs[s].id /\ cards[x].archived

\* C15: every handler that lists rows (boards, lists of a board, cards of a
\* list, search, comments of a card, labels, labels of a card) answers with an
\* array, never null, when no row matches.
C15_ListingsNotNull ==
    \A s \in DOMAIN reqs :
      reqs[s].op \in {"ListBoards", "ListLists", "ListCards", "SearchCards",
                      "ListComments", "ListLabels", "ListLabelsForCard"}
      /\ reqs[s].status = "OK"
      => ~reqs[s].json.null

(* ======================= properties of the errors ====================== *)
\* C16: a request that names one entity by id (here MoveCard, DeleteCard,
\* DeleteList, DeleteBoard, DeleteLabel) and is answered while no row has that
\* id is answered NotFound, also when the row was deleted by another request
\* after the handler's lookup found it.
C16_MissingIdIsNotFound ==
    [][\A s \in DOMAIN reqs :
         LET r == reqs'[s]
             missing ==
               CASE r.op \in {"MoveCard", "DeleteCard"} -> r.id \notin DOMAIN cards
                 [] r.op = "DeleteList" -> r.id \notin DOMAIN lists
                 [] r.op = "DeleteBoard" -> r.id \notin boards
                 [] r.op = "DeleteLabel" -> r.id \notin DOMAIN labels
                 [] OTHER -> FALSE
         IN  reqs[s].pc # "done" /\ r.pc = "done" /\ missing
             => r.status = "NotFound"
      ]_vars

\* C17: an operation applies as a whole or not at all: the statement of a
\* request that changes the store is the one the request is answered with, so
\* that no other request runs on a store the operation has changed in part,
\* and a statement that answers with an error changes nothing.
C17_AllOrNothing ==
    [][\A s \in DOMAIN reqs :
         reqs'[s] # reqs[s] /\ reqs'[s].op # "idle" /\ Store' # Store
         => /\ reqs'[s].pc = "done"
            /\ reqs'[s].status \notin {"BadRequest", "NotFound", "InternalServerError"}
      ]_vars

(* ================= properties of MoveList on the whole store =========== *)
\* C18: a MoveList answered OK changes the position of the list it names and
\* nothing else: the board reference of that list, every other list, every
\* card, comment, label and card-label row stay as they were.
C18_MoveListFrame ==
    [][\A s \in DOMAIN reqs :
         Served(s, "MoveList") /\ reqs'[s].status = "OK" =>
           LET id == reqs'[s].id IN
           /\ DOMAIN lists' = DOMAIN lists
           /\ \A l \in DOMAIN lists \ {id} : lists'[l] = lists[l]
           /\ lists'[id].board_id = lists[id].board_id
           /\ lists'[id].position = reqs'[s].newPosition
           /\ UNCHANGED <<boards, cards, comments, labels, card_labels>>
      ]_vars

\* a MoveList has changed the position of its list on a board that has
\* another list, with a card on one of the lists
C18_Witness ==
    \E s \in DOMAIN reqs :
      /\ reqs[s].op = "MoveList" /\ reqs[s].status = "OK"
      /\ reqs[s].id \in DOMAIN lists
      /\ lists[reqs[s].id].position = 3
      /\ DOMAIN lists \ {reqs[s].id} # {}
      /\ DOMAIN cards # {}

(* ========================= properties of the listings ================== *)
\* q lists each row of S once and nothing else, in ascending order of the
\* positions of the rows of table
Lists(q, S, table) ==
    /\ {q[i] : i \in DOMAIN q} = S
    /\ Len(q) = Cardinality(S)
    /\ \A i, j \in DOMAIN q : i < j => table[q[i]].position <= table[q[j]].position

\* C19: the answer of ListCardsForList is exactly the cards of the list (the
\* archived ones only when asked for) in ascending order of their stored
\* position, and the answer of ListListsForBoard is exactly the lists of the
\* board in ascending order of their stored position.
C19_ListingsOrdered ==
    \A s \in DOMAIN reqs :
          /\ reqs[s].op = "ListCards" /\ reqs[s].status = "OK"
             => Lists(reqs[s].json.array,
                      {x \in DOMAIN cards :
                         /\ cards[x].list_id = reqs[s].id
                         /\ reqs[s].query.archived = "true" \/ ~cards[x].archived},
                      cards)
          /\ reqs[s].op = "ListLists" /\ reqs[s].status = "OK"
             => Lists(reqs[s].json.array,
                      {x \in DOMAIN lists : lists[x].board_id = reqs[s].id},
                      lists)

\* a listing with the archived cards has answered two cards, one of them
\* archived, in the order of their positions and not of their ids
C19_Witness ==
    \E s \in DOMAIN reqs :
      /\ reqs[s].op = "ListCards" /\ reqs[s].status = "OK"
      /\ reqs[s].query.archived = "true"
      /\ reqs[s].json.array = <<2, 1>>
      /\ cards[2].position < cards[1].position
      /\ cards[1].archived
      /\ \E l \in DOMAIN lists : lists[l].position # l

(* ========================= properties of the search ==================== *)
\* C20: the answer of SearchCards is exactly the cards that pass every filter
\* the request supplies (the term is part of the title or of the description,
\* letters compared without their case; board; list; archived flag; label),
\* each card once, the latest created first; a filter the request does not
\* supply excludes no card.
C20_SearchExact ==
    \A s \in DOMAIN reqs :
      reqs[s].op = "SearchCards" /\ reqs[s].status = "OK" =>
        LET q == reqs[s].query
            Contains(text, term) ==
              \E i \in 1..(Len(text) - Len(term) + 1) :
                \A k \in 1..Len(term) : Fold(text[i + k - 1]) = Fold(term[k])
            hits == {x \in DOMAIN cards :
                       /\ Contains(cards[x].title, q.query) \/ Contains(<< >>, q.query)
                       /\ q.board_id.given =>
                            /\ cards[x].list_id \in DOMAIN lists
                            /\ lists[cards[x].list_id].board_id = q.board_id.value
                       /\ q.list_id.given => cards[x].list_id = q.list_id.value
                       /\ q.archived # "" => cards[x].archived = (q.archived = "true")
                       /\ q.label_id.given => <<x, q.label_id.value>> \in card_labels}
        IN  reqs[s].json.array = Descending(hits)

(* ================== properties of MoveList's neighbours ================ *)
\* C21: MoveList(id, t) stores the midpoint of prev and next taken over the
\* lists of the board other than id (prev the greatest position below t, 0 if
\* none; next the smallest above t, prev + 2 if none): the position the moved
\* list has before the move plays no part.
C21_MoveListExcludesMoved ==
    [][\A s \in DOMAIN reqs :
         Served(s, "MoveList") /\ reqs'[s].status = "OK" =>
           LET id == reqs'[s].id
               t == reqs'[s].pos
               others == {l \in DOMAIN lists \ {id} :
                            lists[l].board_id = lists[id].board_id}
               below == {lists[l].position : l \in {x \in others : lists[x].position < t}}
               above == {lists[l].position : l \in {x \in others : lists[x].position > t}}
               prev == IF below = {} THEN 0 ELSE Max(below)
               next == IF above = {} THEN prev + 2 ELSE Min(above)
           IN  2 * lists'[id].position = prev + next
      ]_vars

\* C22: a MoveList(id, t) answered OK on a board with no list below t and one
\* above stores next / 2; with a list below and none above it stores prev + 1;
\* with none on either side it stores 1.
C22_MoveListEdges ==
    [][\A s \in DOMAIN reqs :
         Served(s, "MoveList") /\ reqs'[s].status = "OK" =>
           LET id == reqs'[s].id
               t == reqs'[s].pos
               b == lists[id].board_id
               p == lists'[id].position
           IN  /\ Below(b, t) = {} /\ Above(b, t) # {} => 2 * p = Min(Above(b, t))
               /\ Below(b, t) # {} /\ Above(b, t) = {} => p = Max(Below(b, t)) + 1
               /\ Below(b, t) = {} /\ Above(b, t) = {} => p = 1
      ]_vars

\* a MoveList that found no list on either side of its target has stored 1
C22_Witness ==
    \E s \in DOMAIN reqs :
      /\ reqs[s].op = "MoveList" /\ reqs[s].status = "OK"
      /\ ~reqs[s].prevValid /\ ~reqs[s].nextValid
      /\ reqs[s].id \in DOMAIN lists
      /\ lists[reqs[s].id].position = 1
      /\ reqs[s].pos # 1

\* C28: a MoveList answered OK on a board whose lists have pairwise distinct
\* positions leaves them pairwise distinct.
C28_MoveListKeepsDistinct ==
    [][\A s \in DOMAIN reqs :
         Served(s, "MoveList") /\ reqs'[s].status = "OK" =>
           LET b == lists[reqs'[s].id].board_id
               L == {l \in DOMAIN lists : lists[l].board_id = b}
           IN  (\A x, y \in L : x # y => lists[x].position # lists[y].position)
               => (\A x, y \in L : x # y => lists'[x].position # lists'[y].position)
      ]_vars

(* ================== MoveList and the lists of other boards ============== *)
\* the store without the lists of the boards other than b
OnlyBoard(d, b) ==
    [d EXCEPT !.lists = Remove(@, {l \in DOMAIN @ : @[l].board_id # b})]

\* C23: MoveList is scoped to the board of the moved list: the position a
\* successful MoveList(id, t) stores is the one the same request stores in the
\* state that has no list on any other board, so two states that agree on the
\* lists of the board store the same position; and the board the neighbours are
\* taken from is the board_id of the stored list.
C23_MoveListScoped ==
    [][\A s \in DOMAIN reqs :
         Served(s, "MoveList") /\ reqs'[s].status = "OK" =>
           LET id == reqs'[s].id
               b == lists[id].board_id
               alone == Run(OnlyBoard(Store, b),
                            Request("MoveList", id, 0, reqs'[s].pos), 1)
           IN  /\ reqs'[s].board = b
               /\ alone.r.status = "OK"
               /\ lists'[id].position = alone.d.lists[id].position]_vars

\* a list was moved to a target that has a list of another board strictly
\* nearer below it than any list of its own board
C23_Witness ==
    \E s \in DOMAIN reqs :
      /\ reqs[s].op = "MoveList" /\ reqs[s].status = "OK"
      /\ reqs[s].id \in DOMAIN lists
      /\ \E o \in DOMAIN lists :
           /\ lists[o].board_id # lists[reqs[s].id].board_id
           /\ lists[o].position < reqs[s].pos
           /\ lists[o].position > reqs[s].prev

C24_MovesCollide ==
    \E s, u \in DOMAIN reqs :
      /\ s # u /\ reqs[s].op = "MoveList" /\ reqs[u].op = "MoveList"
      /\ reqs[s].status = "OK" /\ reqs[u].status = "OK"
      /\ reqs[s].id # reqs[u].id /\ reqs[s].pos = reqs[u].pos
      /\ reqs[s].prev = reqs[u].prev /\ reqs[s].next = reqs[u].next
      /\ lists[reqs[s].id].position = lists[reqs[u].id].position
      /\ lists[reqs[s].id].position # reqs[s].pos

\* C27: an UpdateList that supplies no position never changes the stored
\* position of the list, also when a MoveList on the same list runs between
\* its read and its write: the write of name, position and color leaves the
\* position that is stored when it is executed.
C27_UpdateKeepsPosition ==
    [][\A s \in DOMAIN reqs :
         /\ reqs[s].op = "UpdateList" /\ reqs[s].pos = 0
         /\ reqs[s].pc = "Update" /\ reqs'[s].status = "OK"
         => lists'[reqs[s].id].position = lists[reqs[s].id].position]_vars

\* C29: two concurrent AssignLabelToCard requests for the same pair of a stored
\* card and a stored label both answer success, however their existence checks
\* and inserts interleave, and the pair is then stored (as one row: card_labels
\* is a set of pairs, its primary key).
C29_ConcurrentAssignBothSucceed ==
    \A s, u \in DOMAIN reqs :
      /\ s # u /\ reqs[s].op = "AssignLabel" /\ reqs[u].op = "AssignLabel"
      /\ reqs[s].pc = "done" /\ reqs[u].pc = "done"
      /\ reqs[s].id = reqs[u].id /\ reqs[s].id2 = reqs[u].id2
      /\ reqs[s].status # "NotFound" /\ reqs[u].status # "NotFound"
      => /\ reqs[s].status = "OK" /\ reqs[u].status = "OK"
         /\ <<reqs[s].id, reqs[s].id2>> \in card_labels

(* ========================= the names of labels ========================= *)
\* C26: no two labels have the same name, before and after every step; a
\* CreateLabel or an UpdateLabel of a stored label whose name is the name of
\* another label fails (500) and leaves the labels as they are.
C26_LabelNamesUnique ==
    [][/\ \A a, b \in DOMAIN labels : a # b => labels[a].name # labels[b].name
       /\ \A a, b \in DOMAIN labels' : a # b => labels'[a].name # labels'[b].name
       /\ \A s \in DOMAIN reqs :
            /\ Served(s, "CreateLabel") \/ (Served(s, "UpdateLabel") /\ reqs'[s].id \in DOMAIN labels)
            /\ \E l \in DOMAIN labels : l # reqs'[s].id /\ labels[l].name = reqs'[s].name
            => reqs'[s].status = "InternalServerError" /\ labels' = labels]_vars

\* a label was to be renamed to the name of another label, and was refused
C26_Witness ==
    \E s \in DOMAIN reqs :
      /\ reqs[s].op = "UpdateLabel" /\ reqs[s].status = "InternalServerError"
      /\ reqs[s].id \in DOMAIN labels
      /\ labels[reqs[s].id].name # reqs[s].name
      /\ \E l \in DOMAIN labels : labels[l].name = reqs[s].name

(* ============================== updated_at ============================= *)
\* C25: with the clock of the model, a successful UpdateBoard, UpdateList or
\* MoveList, UpdateCard, MoveCard, Archive or Unarchive leaves the updated_at
\* of its board, list or card at the time of the request, and a request on a
\* card (create, update, move, archive, unarchive, delete, comment, assign a
\* label) changes the updated_at of no list and no board, a request on a list
\* that of no board.
C25_UpdatedAt ==
    [][\A s \in DOMAIN reqs :
         LET r == reqs'[s] IN
         /\ Served(s, "UpdateBoard") /\ r.status = "OK" => updated_at'.boards[r.id] = now
         /\ (Served(s, "UpdateList") \/ Served(s, "MoveList")) /\ r.status = "OK" =>
              updated_at'.lists[r.id] = now
         /\ /\ \/ Served(s, "UpdateCard") \/ Served(s, "MoveCard")
                \/ Served(s, "ArchiveCard") \/ Served(s, "UnarchiveCard")
            /\ r.status = "OK"
            => updated_at'.cards[r.id] = now
         /\ \/ Served(s, "CreateCard") \/ Served(s, "UpdateCard") \/ Served(s, "MoveCard")
            \/ Served(s, "ArchiveCard") \/ Served(s, "UnarchiveCard")
            \/ Served(s, "DeleteCard") \/ Served(s, "AddComment")
            \/ Served(s, "AssignLabel")
            => /\ \A l \in DOMAIN lists : updated_at'.lists[l] = updated_at.lists[l]
               /\ \A b \in boards : updated_at'.boards[b] = updated_at.boards[b]
         /\ Served(s, "UpdateList") \/ Served(s, "MoveList") =>
              \A b \in boards : updated_at'.boards[b] = updated_at.boards[b]]_vars

\* a card was moved to another list after the clock went on: it carries the
\* time of the move, and the two lists and the board an earlier time
C25_Witness ==
    \E s \in DOMAIN reqs :
      /\ reqs[s].op = "MoveCard" /\ reqs[s].status = "OK"
      /\ reqs[s].id \in DOMAIN cards
      /\ cards[reqs[s].id].list_id = 2
      /\ updated_at.cards[reqs[s].id] = now /\ now > 0
      /\ updated_at.lists[1] < now /\ updated_at.lists[2] < now
      /\ updated_at.boards[1] < now

(* ============================ RunMigrations ============================ *)
\* where ReadDir lists the file
FileIndex(f) == CHOOSE i \in 1..Len(Files) : Files[i] = f

\* C30: over the startups of the server, the SQL of each .sql file is
\* committed at most once and in ascending filename order; a filename is in
\* the migrations table if and only if the SQL of the file was committed (the
\* seed rows are in the store once, and only then); the file RunMigrations
\* executes is the first .sql file that is not recorded, so a failed file is
\* retried before any later one; and a step that fails commits nothing and
\* ends the run.
C30_MigrationsOnce ==
    [][/\ \A i, j \in 1..Len(applied') :
            i < j => FileIndex(applied'[i]) < FileIndex(applied'[j])
       /\ \A i \in 1..Len(applied') : HasSuffix_sql(applied'[i])
       /\ migrations' = {applied'[i] : i \in 1..Len(applied')}
       /\ IF Files[2] \in migrations'
          THEN boards' = {1} /\ lists' = SeedLists /\ labels' = SeedLabels
          ELSE boards' = {} /\ lists' = << >> /\ labels' = << >>
       /\ main'.pc \in {"Exec", "Record", "Commit"} =>
            /\ HasSuffix_sql(Files[main'.i]) /\ Files[main'.i] \notin migrations'
            /\ \A k \in 1..(main'.i - 1) : HasSuffix_sql(Files[k]) => Files[k] \in migrations'
       /\ main.pc \in {"Exec", "Record", "Commit"} /\ main'.pc = "down" =>
            UNCHANGED <<boards, lists, cards, comments, labels, card_labels, seq,
                        migrations, applied>>]_vars

\* a startup after the first finds the schema file recorded and the seed file
\* not: it has skipped the first and is executing the second
C30_Witness ==
    /\ main.starts > 1 /\ main.pc = "Exec"
    /\ Files[main.i] = "002_seed_data.sql"
    /\ migrations = {"001_initial_schema.sql"}
    /\ boards = {}

====
